---- MODULE Spec2Model ----
(***************************************************************************)
(* A state-machine model of the LS4 survey scheduler (scheduler.c,         *)
(* scheduler_camera.c, scheduler_signals.c).                               *)
(*                                                                         *)
(* Time.  Julian dates and durations are integers counted in ticks of 1/6  *)
(* second.  Every clock reading of the model is a multiple of LoopWait     *)
(* (10 s = 60 ticks), so the quotient time_up / (n_required - n_done) of   *)
(* shorten_interval is exact for up to 6 outstanding visits, as it is in   *)
(* real arithmetic.  Hours (time_up, time_required, time_left, interval,   *)
(* expt) and days (jd) are both kept in ticks, which removes the factors   *)
(* 24.0 and 3600.0 of the C source and nothing else.                       *)
(*                                                                         *)
(* Angles.  Right ascension is counted in 1/1000 hour, declination in      *)
(* whole degrees.                                                          *)
(***************************************************************************)
EXTENDS Integers, Sequences, FiniteSets, TLC

\* ------------------------------------------------------------------------
\* Program constants (scheduler.h, scheduler_camera.h, scheduler.c)
\* ------------------------------------------------------------------------
\* ticks in a second: 6 = 2 * 3, so that 60 ticks divide by 1..6
SECOND == 2 * 3
HOUR == 3600 * SECOND

MAX_OBS_PER_FIELD == 100
MAX_FIELDS == 500
\* MIN_MOON_SEPARATION 15.0 degrees
MIN_MOON_SEPARATION == 15
MAX_BAD_READOUTS == 3
\* MIN_INTERVAL 0.0 hours
MIN_INTERVAL == 0
\* MIN_EXECUTION_TIME 0.029 hours = 626.4 ticks; the model compares whole
\* ticks with it, and d > 626.4 iff d > 626 for an integer d.
MIN_EXECUTION_TIME == 626
\* RA_STEP0 0.05 hours, in 1/1000 hour
RA_STEP0 == 50
MAX_DEC == 30
MIN_DEC == -89
LOOP_WAIT_SEC == 10
READOUT_TIME_SEC == 40
TRANSFER_TIME_SEC == 10
NUM_CAMERA_CLEARS == 0

TOO_LATE_STATUS == -1
NOT_DOABLE_STATUS == 0
READY_STATUS == 1
DO_NOW_STATUS == 2

NO_SURVEY_CODE == 0
TNO_SURVEY_CODE == 1
SNE_SURVEY_CODE == 2
MUSTDO_SURVEY_CODE == 3
LIGO_SURVEY_CODE == 4

DARK_CODE == 0
SKY_CODE == 1
FOCUS_CODE == 2
OFFSET_CODE == 3
EVENING_FLAT_CODE == 4
MORNING_FLAT_CODE == 5
DOME_FLAT_CODE == 6

\* the initial value 10000.0 (hours) of time_left_min in get_next_field
TIME_LEFT_MIN_INIT == 10000 * HOUR
\* the initial value -1000 (hours) of time_left_max in get_next_field
TIME_LEFT_MAX_INIT == (0 - 1000) * HOUR

LoopWait == LOOP_WAIT_SEC * SECOND
ReadoutTime == READOUT_TIME_SEC * SECOND

\* ------------------------------------------------------------------------
\* Small helpers
\* ------------------------------------------------------------------------
Abs(x) == IF x < 0 THEN 0 - x ELSE x

MinOf(S) == CHOOSE x \in S : \A y \in S : x <= y

\* the first index of S whose key is least: the result of a C loop that
\* keeps i when key[i] < best, started from best = init; -1 when none is
FirstLeast(S, key, init) ==
    LET C == {i \in S : key[i] < init}
    IN  IF C = {} THEN 0 - 1
        ELSE MinOf({i \in C : \A j \in C : key[i] <= key[j]})

\* the first index of S whose key is greatest (loop: key[i] > best)
FirstGreatest(S, key, init) ==
    LET C == {i \in S : key[i] > init}
    IN  IF C = {} THEN 0 - 1
        ELSE MinOf({i \in C : \A j \in C : key[i] >= key[j]})

\* ------------------------------------------------------------------------
\* Field status (scheduler.c, update_field_status)
\* ------------------------------------------------------------------------
\* a variant of update_field_status for a field that is not doable: the
\* field is doable again when it has visits left
NotDoableRevived(f) ==
    [f EXCEPT !.doable = IF f.n_done < f.n_required THEN 1 ELSE 0,
              !.status = NOT_DOABLE_STATUS]

\* the field is not doable
NotDoable(f) == [f EXCEPT !.status = NOT_DOABLE_STATUS]

\* a variant of Completed that leaves the status as it was
CompletedKeepStatus(f) == [f EXCEPT !.doable = 0]

\* a variant of Completed that leaves the doable flag
CompletedStillDoable(f) == [f EXCEPT !.status = NOT_DOABLE_STATUS]

\* the field has been completed
Completed(f) == [f EXCEPT !.doable = 0, !.status = NOT_DOABLE_STATUS]

\* a variant of update_field_status that takes time_left from the time_up
\* the field had before the call
update_field_status_stale(f, jd, bad_weather) ==
    IF f.doable = 0 THEN
        NotDoable(f)
    ELSE IF f.n_done = f.n_required THEN
        Completed(f)
    ELSE IF jd < f.jd_rise THEN
        [f EXCEPT !.status = NOT_DOABLE_STATUS]
    ELSE IF jd > f.jd_set THEN
        [f EXCEPT !.doable = 0, !.status = NOT_DOABLE_STATUS]
    ELSE IF f.jd_next - jd > MIN_EXECUTION_TIME THEN
        [f EXCEPT !.status = NOT_DOABLE_STATUS]
    ELSE IF f.shutter = DARK_CODE \/ f.shutter = DOME_FLAT_CODE THEN
        [f EXCEPT !.status = DO_NOW_STATUS]
    ELSE IF f.shutter \in {EVENING_FLAT_CODE, MORNING_FLAT_CODE,
                           FOCUS_CODE, OFFSET_CODE} THEN
        IF ~bad_weather THEN [f EXCEPT !.status = DO_NOW_STATUS]
        ELSE [f EXCEPT !.status = NOT_DOABLE_STATUS]
    ELSE
        LET tr == (f.n_required - f.n_done) * f.interval
        IN  [f EXCEPT !.time_required = tr, !.time_up = f.jd_set - jd,
                      !.time_left = f.time_up - tr,
                      !.status = IF f.time_up - tr < 0 THEN TOO_LATE_STATUS
                                 ELSE READY_STATUS]

update_field_status(f, jd, bad_weather) ==
    IF f.doable = 0 THEN
        NotDoable(f)
    ELSE IF f.n_done = f.n_required THEN
        Completed(f)
    ELSE IF jd < f.jd_rise THEN
        [f EXCEPT !.status = NOT_DOABLE_STATUS]
    ELSE IF jd > f.jd_set THEN
        [f EXCEPT !.doable = 0, !.status = NOT_DOABLE_STATUS]
    ELSE IF f.jd_next - jd > MIN_EXECUTION_TIME THEN
        [f EXCEPT !.status = NOT_DOABLE_STATUS]
    ELSE IF f.shutter = DARK_CODE \/ f.shutter = DOME_FLAT_CODE THEN
        [f EXCEPT !.status = DO_NOW_STATUS]
    ELSE IF f.shutter \in {EVENING_FLAT_CODE, MORNING_FLAT_CODE,
                           FOCUS_CODE, OFFSET_CODE} THEN
        IF ~bad_weather THEN [f EXCEPT !.status = DO_NOW_STATUS]
        ELSE [f EXCEPT !.status = NOT_DOABLE_STATUS]
    ELSE
        LET tr == (f.n_required - f.n_done) * f.interval
            tu == f.jd_set - jd
        IN  [f EXCEPT !.time_required = tr, !.time_up = tu,
                      !.time_left = tu - tr,
                      !.status = IF tu - tr < 0 THEN TOO_LATE_STATUS
                                 ELSE READY_STATUS]

\* ------------------------------------------------------------------------
\* shorten_interval: the interval that makes time_left 0.  The divisor is
\* never 0 where the scheduler calls it on a field of the sequence: the
\* field is TooLate, a status update_field_status gives only when
\* n_done # n_required.
\* ------------------------------------------------------------------------
shorten_interval(f) ==
    LET new_time_required == f.time_up
        new_interval == new_time_required \div (f.n_required - f.n_done)
    IN  IF f.n_required - f.n_done > 0 /\ new_interval > MIN_INTERVAL THEN
            [f EXCEPT !.time_required = new_time_required,
                      !.interval = new_interval,
                      !.time_left = 0]
        ELSE [f EXCEPT !.doable = 0]

\* ------------------------------------------------------------------------
\* clock_difference and paired_fields.  1000/cos(dec) for the declinations
\* of the model's sky: cos(0) = 1, cos(-60 deg) = 1/2.
\* ------------------------------------------------------------------------
clock_difference(h1, h2) ==
    LET dt == h2 - h1
        d1 == IF dt > 12000 THEN dt - 24000 ELSE dt
    IN  IF d1 < 0 - 12000 THEN d1 + 24000 ELSE d1

SecantMilli(dec) == IF dec = 0 - 60 THEN 2000 ELSE 1000

paired_fields(f1, f2) ==
    IF f1.shutter # SKY_CODE \/ f2.shutter # SKY_CODE THEN FALSE
    ELSE /\ f2.dec = f1.dec
         /\ Abs(clock_difference(f1.ra, f2.ra)) * 1000
                < RA_STEP0 * SecantMilli(f1.dec)

\* ------------------------------------------------------------------------
\* get_next_field.  seq is the array, of which slots 0 .. num_fields-1 hold
\* the fields; the result is the array after the call and the returned
\* index.  The loops of the two TooLate tiers run to i <= num_fields, so
\* they also read slot num_fields, which no load ever filled.
\* ------------------------------------------------------------------------
n_left_of(f) == f.n_required - f.n_done

IsFlat(f) == f.shutter \in {DOME_FLAT_CODE, EVENING_FLAT_CODE, MORNING_FLAT_CODE}

\* the first loop: update every field's status
FirstPass(seq, num_fields, jd, bad_weather) ==
    [i \in DOMAIN seq |->
        IF i < num_fields THEN update_field_status(seq[i], jd, bad_weather)
        ELSE seq[i]]

Select(seq, i, code) ==
    [seq |-> IF i \in DOMAIN seq THEN [seq EXCEPT ![i].selection_code = code]
             ELSE seq,
     ret |-> i]

\* MUST-DO fields with READY_STATUS: least time_left among those with the
\* least number of visits left (or with n_required 6)
TierReadyMustDo(s, num_fields) ==
    LET RM == {i \in 0..(num_fields - 1) :
                 s[i].status = READY_STATUS /\ s[i].survey_code = MUSTDO_SURVEY_CODE}
        n_left_min_must_do == MinOf({n_left_of(s[i]) : i \in RM})
        key == [i \in DOMAIN s |-> s[i].time_left]
        i_min == FirstLeast({i \in RM : s[i].n_required = 6
                                  \/ n_left_of(s[i]) = n_left_min_must_do},
                            key, TIME_LEFT_MIN_INIT)
    IN  Select(s, i_min, "LEAST_TIME_READY_MUST_DO")

\* MUST-DO fields with TOO_LATE_STATUS: least time_left, interval shortened,
\* returned whatever its status then is
TierLateMustDo(s, num_fields, jd, bad_weather) ==
    LET key == [i \in DOMAIN s |-> s[i].time_left]
        i_min == FirstLeast({i \in 0..num_fields :
                               s[i].status = TOO_LATE_STATUS
                               /\ s[i].survey_code = MUSTDO_SURVEY_CODE},
                            key, TIME_LEFT_MIN_INIT)
        f == update_field_status(shorten_interval(s[i_min]), jd, bad_weather)
    IN  Select([s EXCEPT ![i_min] = f], i_min, "LEAST_TIME_LATE_MUST_DO")

\* a variant of TierDoNow that returns the first field of the sequence
TierDoNowFirstField(s, num_fields) == Select(s, 0, "FIRST_DO_NOW")

\* fields with DO_NOW_STATUS: the first flat, or else the first dark, or
\* else the first of them
TierDoNow(s, num_fields) ==
    LET DN == {i \in 0..(num_fields - 1) : s[i].status = DO_NOW_STATUS}
        flats == {i \in DN : IsFlat(s[i])}
        darks == {i \in DN : s[i].shutter = DARK_CODE}
    IN  IF flats # {} THEN Select(s, MinOf(flats), "FIRST_DO_NOW_FLAT")
        ELSE IF darks # {} THEN Select(s, MinOf(darks), "FIRST_DO_NOW_DARK")
        ELSE Select(s, MinOf(DN), "FIRST_DO_NOW")

\* a variant of TierPair that returns the previous field again
TierPairSame(s, i_prev, jd, bad_weather) ==
    Select(s, i_prev, "FIRST_READY_PAIR")

\* the pair of the previous field, at the next index
TierPair(s, i_prev, jd, bad_weather) ==
    LET f_next == s[i_prev + 1]
        f_late == update_field_status(shorten_interval(f_next), jd, bad_weather)
    IN  IF f_next.status = READY_STATUS THEN
            Select(s, i_prev + 1, "FIRST_READY_PAIR")
        ELSE IF f_next.status = TOO_LATE_STATUS THEN
            Select([s EXCEPT ![i_prev + 1] = f_late], i_prev + 1,
                   IF f_late.status = READY_STATUS THEN "FIRST_LATE_PAIR"
                   ELSE "FIRST_NOT_READY_LATE_PAIR")
        ELSE Select(s, i_prev + 1, "FIRST_NOT_READY_NOT_LATE_PAIR")

\* a variant of TierReady that takes the least time_left of all the fields
\* with READY_STATUS
TierReadyLeastTime(s, num_fields) ==
    LET R == {i \in 0..(num_fields - 1) : s[i].status = READY_STATUS}
        key == [i \in DOMAIN s |-> s[i].time_left]
    IN  Select(s, FirstLeast(R, key, TIME_LEFT_MIN_INIT), "LEAST_TIME_READY")

\* fields with READY_STATUS: least time_left among those with the least
\* number of visits left
TierReady(s, num_fields) ==
    LET R == {i \in 0..(num_fields - 1) : s[i].status = READY_STATUS}
        n_left_min == MinOf({n_left_of(s[i]) : i \in R})
        key == [i \in DOMAIN s |-> s[i].time_left]
        i_min == FirstLeast({i \in R : n_left_of(s[i]) = n_left_min},
                            key, TIME_LEFT_MIN_INIT)
    IN  Select(s, i_min, "LEAST_TIME_READY")

\* a variant of TierLate that returns the field whatever its status
TierLateWhatever(s, num_fields, jd, bad_weather) ==
    LET key == [i \in DOMAIN s |-> s[i].time_left]
        i_max == FirstGreatest({i \in 0..num_fields :
                                  s[i].status = TOO_LATE_STATUS},
                               key, TIME_LEFT_MAX_INIT)
        f == update_field_status(shorten_interval(s[i_max]), jd, bad_weather)
    IN  IF i_max < 0 THEN [seq |-> s, ret |-> 0 - 1]
        ELSE Select([s EXCEPT ![i_max] = f], i_max, "MOST_TIME_READY_LATE")

\* fields with TOO_LATE_STATUS: most time_left, interval shortened,
\* returned only if READY_STATUS then
TierLate(s, num_fields, jd, bad_weather) ==
    LET key == [i \in DOMAIN s |-> s[i].time_left]
        i_max == FirstGreatest({i \in 0..num_fields :
                                  s[i].status = TOO_LATE_STATUS},
                               key, TIME_LEFT_MAX_INIT)
        f == update_field_status(shorten_interval(s[i_max]), jd, bad_weather)
        s1 == [s EXCEPT ![i_max] = f]
    IN  IF i_max < 0 THEN [seq |-> s, ret |-> 0 - 1]
        ELSE IF f.status = READY_STATUS THEN
            Select(s1, i_max, "MOST_TIME_READY_LATE")
        ELSE [seq |-> s1, ret |-> 0 - 1]

get_next_field(seq, num_fields, i_prev, jd, bad_weather) ==
    LET s == FirstPass(seq, num_fields, jd, bad_weather)
        In == 0..(num_fields - 1)
        has_prev == i_prev >= 0 /\ i_prev < num_fields - 1
        n_ready_must_do == Cardinality({i \in In : s[i].status = READY_STATUS
                              /\ s[i].survey_code = MUSTDO_SURVEY_CODE})
        n_do_now == Cardinality({i \in In : s[i].status = DO_NOW_STATUS})
        n_ready == Cardinality({i \in In : s[i].status = READY_STATUS
                              /\ s[i].survey_code # MUSTDO_SURVEY_CODE})
        n_late == Cardinality({i \in In : s[i].status = TOO_LATE_STATUS})
        n_late_must_do == Cardinality({i \in In : s[i].status = TOO_LATE_STATUS
                              /\ s[i].survey_code = MUSTDO_SURVEY_CODE})
    IN  IF n_ready_must_do > 0 THEN TierReadyMustDo(s, num_fields)
        ELSE IF n_late_must_do > 0 THEN TierLateMustDo(s, num_fields, jd, bad_weather)
        ELSE IF n_do_now > 0 THEN TierDoNow(s, num_fields)
        ELSE IF has_prev /\ paired_fields(s[i_prev + 1], s[i_prev])
                /\ s[i_prev + 1].doable # 0
             THEN TierPair(s, i_prev, jd, bad_weather)
        ELSE IF n_ready > 0 THEN TierReady(s, num_fields)
        ELSE IF n_late > 0 THEN TierLate(s, num_fields, jd, bad_weather)
        ELSE [seq |-> s, ret |-> 0 - 1]

\* ------------------------------------------------------------------------
\* The night and the sky (inputs of the model).  init_night computes the
\* night's times from the date and the site; the model takes one night,
\* counted from sunset.  The sky says when a position is within the
\* airmass and hour-angle limits, which get_airmass and get_ha decide in
\* the program.
\* ------------------------------------------------------------------------
NightLen == 2 * HOUR

\* the moon is 60 percent full, at 12 h and 0 degrees
Night0 ==
    [jd_sunset |-> 0,
     jd_start |-> HOUR \div 2,
     jd_end |-> (HOUR \div 2) + NightLen,
     jd_sunrise |-> HOUR + NightLen,
     percent_moon |-> 60, ra_moon |-> 12000, dec_moon |-> 0]

\* right ascensions of the model's sky
Sky == [a |-> 1000, b |-> 1040, c |-> 3000, d |-> 5000, low |-> 7000,
        moon |-> 11500, lst_sunset |-> 4000]
RA_A == Sky.a
RA_B == Sky.b
RA_C == Sky.c
RA_LOW == Sky.low

\* [from, until]: the span in which the position is within the limits
SkyWindow(ra, dec) ==
    IF ra = RA_C THEN [from |-> 0, until |-> Night0.jd_start + (3 * HOUR) \div 2]
    ELSE IF ra = RA_LOW THEN [from |-> 1, until |-> 0]
    ELSE [from |-> 0, until |-> Night0.jd_sunrise]

IsUp(ra, dec, jd) == SkyWindow(ra, dec).from <= jd /\ jd <= SkyWindow(ra, dec).until

get_jd_rise_time(ra, dec, nt) ==
    LET w == SkyWindow(ra, dec)
    IN  IF IsUp(ra, dec, nt.jd_start) THEN nt.jd_start
        ELSE IF nt.jd_start < w.from /\ w.from <= nt.jd_end /\ w.from <= w.until
             THEN w.from
        ELSE 0 - 1

get_jd_set_time(ra, dec, nt) ==
    LET w == SkyWindow(ra, dec)
    IN  IF IsUp(ra, dec, nt.jd_end) THEN nt.jd_end
        ELSE IF nt.jd_start <= w.until /\ w.until < nt.jd_end /\ w.from <= w.until
             THEN w.until
        ELSE 0 - 1

\* moon_interference(f, nt, MIN_MOON_SEPARATION): the distance of the field
\* from the moon in tenths of a degree, compared by its square
moon_interference(f, nt) ==
    LET dra == (Abs(clock_difference(nt.ra_moon, f.ra)) * 15) \div 100
        ddec == Abs(nt.dec_moon - f.dec) * 10
    IN  /\ nt.percent_moon > 50
        /\ dra * dra + ddec * ddec
              < (MIN_MOON_SEPARATION * 10) * (MIN_MOON_SEPARATION * 10)

\* no position of the model's sky lies within 15 degrees of the galactic plane
LowGalacticLatitude(f) == FALSE

\* SKYFLAT_WAIT_TIME (0.5/24) and DARK_WAIT_TIME (0.0/24) days
SKYFLAT_WAIT_TIME == HOUR \div 2
DARK_WAIT_TIME == 0 * HOUR

\* ------------------------------------------------------------------------
\* Fields.  The array `Field sequence[MAX_FIELDS]` is a local of main: what
\* a slot holds before anything is stored in it is not defined.  The model
\* lets it be zeros, or a record that reads as a TooLate MUST-DO field.
\* ------------------------------------------------------------------------
ZeroField ==
    [status |-> 0, doable |-> 0, selection_code |-> "NOT_SELECTED",
     shutter |-> 0, survey_code |-> 0, ra |-> 0, dec |-> 0, expt |-> 0,
     interval |-> 0, n_required |-> 0, n_done |-> 0, jd_rise |-> 0,
     jd_set |-> 0, jd_next |-> 0, time_up |-> 0, time_required |-> 0,
     time_left |-> 0]

LateField ==
    [ZeroField EXCEPT !.status = TOO_LATE_STATUS, !.doable = 1,
                      !.shutter = SKY_CODE, !.survey_code = MUSTDO_SURVEY_CODE,
                      !.n_required = 1, !.time_left = 0 - 24 * HOUR]

UninitializedFields == {ZeroField, LateField}

\* a line of a sequence file, as sscanf reads it (interval and expt already
\* divided by 3600.0)
Line(ra, dec, shutter, expt_sec, interval_sec, n_required, survey_code) ==
    [ra |-> ra, dec |-> dec, shutter |-> shutter, expt |-> expt_sec * SECOND,
     interval |-> interval_sec * SECOND, n_required |-> n_required,
     survey_code |-> survey_code]

\* the sequence files of the model
Scripts ==
    << \* one MUST-DO field with too little time for its three visits
       << Line(RA_C, 0, SKY_CODE, 60, 3600, 3, MUSTDO_SURVEY_CODE) >>,
       \* a dark and a MUST-DO field
       << Line(0, 10, DARK_CODE, 60, 1800, 2, NO_SURVEY_CODE),
          Line(RA_C, 0, SKY_CODE, 60, 1800, 2, MUSTDO_SURVEY_CODE) >>,
       \* a pair of fields, then a MUST-DO field
       << Line(RA_A, 0, SKY_CODE, 60, 1800, 2, TNO_SURVEY_CODE),
          Line(RA_B, 0, SKY_CODE, 60, 1800, 2, TNO_SURVEY_CODE),
          Line(Sky.d, 0, SKY_CODE, 60, 3600, 2, MUSTDO_SURVEY_CODE) >>,
       \* a pair of fields, a field that never rises, and a dome flat
       << Line(RA_A, 0, SKY_CODE, 60, 1800, 1, TNO_SURVEY_CODE),
          Line(RA_B, 0, SKY_CODE, 60, 1800, 1, TNO_SURVEY_CODE),
          Line(RA_LOW, 0, SKY_CODE, 60, 1800, 1, SNE_SURVEY_CODE),
          Line(0, 0, DOME_FLAT_CODE, 60, 900, 1, NO_SURVEY_CODE) >>,
       \* a focus sequence, an offset field, a field
       << Line(0, 0, FOCUS_CODE, 60, 1800, 2, NO_SURVEY_CODE),
          Line(0, 0, OFFSET_CODE, 60, 1800, 1, NO_SURVEY_CODE),
          Line(RA_A, 0, SKY_CODE, 60, 1800, 1, TNO_SURVEY_CODE) >>,
       \* an exposure in the west that is longer than LONG_EXPTIME, a field
       << Line(RA_C, 0, SKY_CODE, 4000, 1800, 1, NO_SURVEY_CODE),
          Line(RA_A, 0, SKY_CODE, 60, 1800, 1, TNO_SURVEY_CODE) >>,
       \* a pair of fields, and a field that sets early
       << Line(RA_A, 0, SKY_CODE, 60, 1800, 1, TNO_SURVEY_CODE),
          Line(RA_B, 0, SKY_CODE, 60, 1800, 1, TNO_SURVEY_CODE),
          Line(RA_C, 0, SKY_CODE, 60, 1800, 2, TNO_SURVEY_CODE) >>,
       \* an exposure in the west that is longer than LONG_EXPTIME, of a
       \* field with as many visits as a field may have
       << Line(RA_C, 0, SKY_CODE, 4000, 30, MAX_OBS_PER_FIELD,
               NO_SURVEY_CODE) >>,
       \* a field and a field close to the moon, to which the file of new
       \* fields adds
       << Line(RA_A, 0, SKY_CODE, 60, 1800, 1, TNO_SURVEY_CODE),
          Line(Sky.moon, 0, SKY_CODE, 60, 1800, 1, TNO_SURVEY_CODE) >> >>

\* the files of new fields (<script>.add) as they are when complete: the
\* operator appends their lines in the course of the night.  Only the last
\* script has one: a field that never rises, then a field.
NewFields ==
    [k \in 1..Len(Scripts) |->
        IF k = Len(Scripts)
        THEN << Line(RA_LOW, 0, SKY_CODE, 60, 1800, 1, SNE_SURVEY_CODE),
                Line(RA_B, 0, SKY_CODE, 60, 1800, 1, TNO_SURVEY_CODE) >>
        ELSE << >>]

\* the slots of the arrays of the model: they hold the longest sequence
\* with the new fields every launch adds, and the slot after it
MaxSlots == 8
Slots == 0..(MaxSlots - 1)

\* load_sequence: every line is stored in slot n_fields; a line that is out
\* of range is not counted, so the next line overwrites it
LineAccepted(l) ==
    ~ ( l.ra < 0 \/ l.ra > 24000 \/ l.dec < 0 - 90 \/ l.dec > 90
        \/ l.expt < 0 \/ l.interval > 12 * HOUR \/ l.interval < MIN_INTERVAL
        \/ l.n_required < 1 \/ l.n_required > MAX_OBS_PER_FIELD
        \/ l.survey_code < NO_SURVEY_CODE \/ l.survey_code > LIGO_SURVEY_CODE )

StoreLine(f, l) ==
    [f EXCEPT !.ra = l.ra, !.dec = l.dec, !.shutter = l.shutter,
              !.expt = l.expt, !.interval = l.interval,
              !.n_required = l.n_required,
              !.survey_code = IF l.survey_code = LIGO_SURVEY_CODE
                              THEN MUSTDO_SURVEY_CODE ELSE l.survey_code]

RECURSIVE load_lines(_, _, _, _)
load_lines(seq, n_fields, lines, k) ==
    IF k > Len(lines) THEN [seq |-> seq, num_fields |-> n_fields]
    ELSE LET s1 == [seq EXCEPT ![n_fields] = StoreLine(seq[n_fields], lines[k])]
         IN  load_lines(s1, IF LineAccepted(lines[k]) THEN n_fields + 1 ELSE n_fields,
                        lines, k + 1)

load_sequence(seq, script) == load_lines(seq, 0, Scripts[script], 1)

\* ------------------------------------------------------------------------
\* init_fields: one field, given the night (with jd_start already moved to
\* jd when jd is later) and the current jd
\* ------------------------------------------------------------------------
init_field(f0, nt, jd) ==
    LET rise == get_jd_rise_time(f0.ra, f0.dec, nt)
        set == get_jd_set_time(f0.ra, f0.dec, nt)
        f == [f0 EXCEPT !.n_done = 0, !.status = 0,
                        !.selection_code = "NOT_SELECTED",
                        !.jd_rise = rise, !.jd_set = set,
                        !.time_up = set - rise,
                        !.time_required = (f0.n_required - 1) * f0.interval,
                        !.time_left = (set - rise) - (f0.n_required - 1) * f0.interval]
        dark_night_duration == nt.jd_end - nt.jd_start
        whole_night_duration == nt.jd_sunrise - jd
        \* a window that opens at `open` and closes at `close`
        Evening(open, close) ==
            LET r == IF jd > open THEN jd ELSE open
            IN  [f EXCEPT !.doable = 1, !.jd_rise = r, !.jd_next = r,
                          !.jd_set = close, !.time_up = close - r,
                          !.time_left = close - jd]
        Morning(close) ==
            IF jd > nt.jd_end THEN
                [f EXCEPT !.doable = 1, !.jd_set = close, !.jd_next = jd,
                          !.jd_rise = jd, !.time_up = close - jd,
                          !.time_left = close - jd]
            ELSE
                [f EXCEPT !.doable = 1, !.jd_set = close,
                          !.time_up = close - nt.jd_end,
                          !.jd_next = nt.jd_end, !.jd_rise = nt.jd_end,
                          !.time_left = close - jd]
    IN  IF f.shutter = DARK_CODE /\ f.dec = 0 THEN
            IF jd < nt.jd_end THEN Evening(nt.jd_start, nt.jd_end) ELSE f
        ELSE IF f.shutter = DARK_CODE /\ f.dec = 0 - 1 THEN
            IF jd < nt.jd_start
            THEN Evening(nt.jd_sunset + DARK_WAIT_TIME, nt.jd_start) ELSE f
        ELSE IF f.shutter = DARK_CODE /\ f.dec = 1 THEN
            IF jd < nt.jd_sunrise THEN Morning(nt.jd_sunrise - DARK_WAIT_TIME) ELSE f
        ELSE IF f.shutter = DARK_CODE \/ f.shutter = DOME_FLAT_CODE THEN
            [f EXCEPT !.doable = 1, !.time_left = whole_night_duration,
                      !.time_up = whole_night_duration, !.jd_next = jd,
                      !.jd_rise = jd, !.jd_set = nt.jd_sunrise]
        ELSE IF f.shutter = FOCUS_CODE \/ f.shutter = OFFSET_CODE THEN
            IF jd < nt.jd_end THEN
                [f EXCEPT !.doable = 1, !.time_left = dark_night_duration,
                          !.time_up = dark_night_duration,
                          !.jd_next = nt.jd_start, !.jd_rise = nt.jd_start,
                          !.jd_set = nt.jd_end]
            ELSE f
        ELSE IF f.shutter = EVENING_FLAT_CODE THEN
            IF jd < nt.jd_start
            THEN Evening(nt.jd_sunset + SKYFLAT_WAIT_TIME, nt.jd_start) ELSE f
        ELSE IF f.shutter = MORNING_FLAT_CODE THEN
            IF jd < nt.jd_sunrise - SKYFLAT_WAIT_TIME
            THEN Morning(nt.jd_sunrise - SKYFLAT_WAIT_TIME) ELSE f
        ELSE IF f.jd_rise < 0 THEN
            [f EXCEPT !.doable = 0, !.jd_next = 0 - 1, !.time_left = 0 - 1]
        ELSE IF moon_interference(f, nt) THEN
            [f EXCEPT !.doable = 0, !.jd_next = 0 - 1]
        ELSE IF f.dec > MAX_DEC \/ f.dec < MIN_DEC THEN
            [f EXCEPT !.doable = 0]
        ELSE IF f.survey_code # MUSTDO_SURVEY_CODE /\ f.time_left < 0 THEN
            [f EXCEPT !.doable = 0, !.jd_next = 0 - 1]
        ELSE IF f.survey_code = SNE_SURVEY_CODE /\ LowGalacticLatitude(f) THEN
            [f EXCEPT !.doable = 0]
        ELSE
            [f EXCEPT !.doable = 1,
                      !.jd_next = IF jd > f.jd_rise THEN nt.jd_start ELSE f.jd_rise]

\* a variant of init_night_start that leaves the night as it is
init_night_start_kept(nt, jd) == nt

\* the night as init_fields leaves it
init_night_start(nt, jd) ==
    IF jd > nt.jd_start THEN [nt EXCEPT !.jd_start = jd] ELSE nt

init_fields(seq, num_fields, nt, jd) ==
    [i \in DOMAIN seq |->
        IF i < num_fields THEN init_field(seq[i], init_night_start(nt, jd), jd)
        ELSE seq[i]]

\* init_fields(new_sequence+first, num, ...): the num records from `first` on
init_new_fields(seq, first, num, nt, jd) ==
    [i \in DOMAIN seq |->
        IF first <= i /\ i < first + num
        THEN init_field(seq[i], init_night_start(nt, jd), jd)
        ELSE seq[i]]

\* what that call returns: the records it made doable
n_observable(seq, first, num, nt, jd) ==
    Cardinality({i \in first..(first + num - 1) :
        init_field([seq[i] EXCEPT !.doable = 0],
                   init_night_start(nt, jd), jd).doable = 1})

\* add_new_fields(sequence, num_fields, new_sequence+first, num)
add_new_fields(seq, num_fields, new_seq, first, num) ==
    IF num_fields + num >= MAX_FIELDS THEN [ret |-> 0 - 1, seq |-> seq]
    ELSE [ret |-> 0,
          seq |-> [s \in DOMAIN seq |->
                      IF num_fields <= s /\ s < num_fields + num
                      THEN new_seq[first + (s - num_fields)] ELSE seq[s]]]

\* ------------------------------------------------------------------------
\* Bounds of the model
\* ------------------------------------------------------------------------
\* launches of the scheduler in one night
MaxLaunches == 2
\* exposure threads alive at a time
MaxWorkers == 2
\* words of a reply of the camera
MaxReplyLen == 2

\* interventions and misbehaviours of the environment in one night (signals,
\* new fields, commands that fail, exposure threads that are late or never
\* start)
MaxFaults == 2

\* The clock is read on a grid of half an hour: what lies between
\* two readings (slews, sleeps of LOOP_WAIT_SEC, command timeouts) is one
\* step of the grid.
ClockStep == HOUR \div 2

\* ------------------------------------------------------------------------
\* State
\* ------------------------------------------------------------------------
VARIABLES
    pc,                       \* where main is: boot, top, body, selected,
                              \* readwait (in observe_next_field), exited
    exit_code,                \* the argument of exit()
    launches,                 \* how often the scheduler was started
    faults,                   \* how often the environment misbehaved
    script,                   \* the sequence file named on the command line
    journal,                  \* the records of scheduler.bin (OBS_RECORD_FILE)
    added,                    \* the lines the file of new fields holds
    sent,                     \* the commands the program sent to the
                              \* telescope and the camera in its last step
    jd,                       \* the last reading of the clock
    nt,                       \* Night_Times nt
    sequence,                 \* Field sequence[MAX_FIELDS]
    num_fields,
    new_sequence,             \* Field new_sequence[MAX_FIELDS]
    num_new_fields_prev,
    i,                        \* the index get_next_field returned
    i_prev,
    bad_weather,
    dome_polled,              \* history: this iteration of the loop polled the
                              \* telescope and found the dome open
    first_exposure,           \* bool first_exposure of main
    mode,                     \* char exp_mode[256] of main, "" before it is set
    telescope_ready,
    pause_flag,
    focus_done,
    offset_done,
    stop_flag,
    stow_flag,
    readout_pending,
    exposed,                  \* history: the field of the exposure that
                              \* take_exposure started last, -1 if none
    command_start_semaphore,
    command_done_semaphore,
    workers,                  \* exposure threads that sent their command
    worker_result,            \* *result of the thread that finished last
    readout_result,           \* what the last wait_camera_readout returned
    n,                        \* observe_next_field: the exposure of the loop
    num_exposures,
    bad_read_count

memory == <<nt, sequence, num_fields, new_sequence, num_new_fields_prev, i,
            i_prev, bad_weather, dome_polled, first_exposure, mode, telescope_ready, pause_flag, focus_done,
            offset_done, stop_flag, stow_flag>>
camera == <<readout_pending, exposed, command_start_semaphore, command_done_semaphore,
            workers, worker_result, readout_result>>
locals == <<n, num_exposures, bad_read_count>>
vars == <<pc, exit_code, launches, faults, script, journal, added, sent, jd,
          memory, camera, locals>>

\* the memory of a process that is not running yet (or no more)
NoProcess ==
    /\ nt = Night0
    /\ sequence = [s \in Slots |-> ZeroField]
    /\ num_fields = 0
    /\ new_sequence = [s \in Slots |-> ZeroField]
    /\ num_new_fields_prev = 0
    /\ i = 0 - 1
    /\ i_prev = 0 - 1
    /\ bad_weather = FALSE
    /\ dome_polled = FALSE
    /\ first_exposure = TRUE
    /\ mode = ""
    /\ telescope_ready = FALSE
    /\ pause_flag = 0
    /\ focus_done = 0
    /\ offset_done = 0
    /\ stop_flag = 1
    /\ stow_flag = 1
    /\ readout_pending = FALSE
    /\ exposed = 0 - 1
    /\ command_start_semaphore = 0
    /\ command_done_semaphore = 0
    /\ workers = 0
    /\ worker_result = 0
    /\ readout_result = 0
    /\ n = 0
    /\ num_exposures = 1
    /\ bad_read_count = 0

\* the same, of the next state
ProcessGone ==
    /\ nt' = Night0
    /\ sequence' = [s \in Slots |-> ZeroField]
    /\ num_fields' = 0
    /\ new_sequence' = [s \in Slots |-> ZeroField]
    /\ num_new_fields_prev' = 0
    /\ i' = 0 - 1
    /\ i_prev' = 0 - 1
    /\ bad_weather' = FALSE
    /\ dome_polled' = FALSE
    /\ first_exposure' = TRUE
    /\ mode' = ""
    /\ telescope_ready' = FALSE
    /\ pause_flag' = 0
    /\ focus_done' = 0
    /\ offset_done' = 0
    /\ stop_flag' = 1
    /\ stow_flag' = 1
    /\ readout_pending' = FALSE
    /\ exposed' = 0 - 1
    /\ command_start_semaphore' = 0
    /\ command_done_semaphore' = 0
    /\ workers' = 0
    /\ worker_result' = 0
    /\ readout_result' = 0
    /\ n' = 0
    /\ num_exposures' = 1
    /\ bad_read_count' = 0

Init ==
    /\ pc = "exited"
    /\ exit_code = 0
    /\ launches = 0
    /\ faults = 0
    /\ script \in 1..Len(Scripts)
    /\ journal = << >>
    /\ added = 0
    /\ sent = {}
    /\ jd = Night0.jd_start
    /\ NoProcess


\* what an input costs of the budget of misbehaviours
Cost(ok) == IF ok THEN 0 ELSE 1

\* a variant of do_exit that stows the telescope
do_exit_stow(code, before) ==
    /\ pc' = "exited"
    /\ exit_code' = code
    /\ sent' = before \cup {"stow"}
    /\ ProcessGone
    /\ UNCHANGED <<launches, script, added>>

\* do_exit(code): stop_telescope, close_files, exit(code).  The process and
\* its threads are gone, the files stay.  `before` are the commands the
\* step sent before it called do_exit.
do_exit(code, before) ==
    /\ pc' = "exited"
    /\ exit_code' = code
    /\ sent' = before \cup {"stop"}
    /\ ProcessGone
    /\ UNCHANGED <<launches, script, added>>

\* ------------------------------------------------------------------------
\* The journal
\* ------------------------------------------------------------------------
\* a variant of save_obs_record that leaves out the last visit of every field
save_obs_record_less(seq, num) ==
    [k \in 1..num |-> [seq[k - 1] EXCEPT !.n_done = IF @ > 0 THEN @ - 1 ELSE @]]

save_obs_record(seq, num) == [k \in 1..num |-> seq[k - 1]]

\* the array after load_obs_record, and the number of fields it returns
load_obs_record(mem, file) ==
    [seq |-> [s \in DOMAIN mem |-> IF s < Len(file) THEN file[s + 1] ELSE mem[s]],
     num_fields |-> Len(file)]

\* ------------------------------------------------------------------------
\* Launch: the operator starts the scheduler with the sequence file
\* ------------------------------------------------------------------------
Launch ==
    /\ pc = "exited"
    /\ launches < MaxLaunches
    /\ pc' = "boot"
    /\ launches' = launches + 1
    /\ jd' = IF launches = 0 THEN jd ELSE jd + ClockStep
    /\ sent' = {}
    /\ UNCHANGED <<exit_code, faults, script, journal, added, memory, camera,
                   locals>>

\* main, from its first line to the head of the observing loop
Startup(g, late, cam_ok, tel_ok) ==
    /\ pc = "boot"
    /\ faults + Cost(cam_ok) + Cost(tel_ok) <= MaxFaults
    /\ faults' = faults + Cost(cam_ok) + Cost(tel_ok)
    /\ LET mem == [s \in Slots |-> g]
           old == load_obs_record(mem, journal)
           ld == IF old.num_fields = 0 THEN load_sequence(mem, script) ELSE old
           now == IF late THEN jd + ClockStep ELSE jd
       IN  /\ jd' = now
           /\ IF ld.num_fields < 1 \/ now > Night0.jd_sunrise \/ ~cam_ok THEN
                  /\ do_exit(IF ld.num_fields >= 1 /\ now > Night0.jd_sunrise
                             THEN 0 ELSE 0 - 1, {})
                  /\ UNCHANGED journal
              ELSE
                  /\ pc' = "top"
                  /\ sequence' = init_fields(ld.seq, ld.num_fields, Night0, now)
                  /\ nt' = init_night_start(Night0, now)
                  /\ num_fields' = ld.num_fields
                  /\ new_sequence' = mem
                  /\ telescope_ready' = tel_ok
                  /\ sent' = {}
                  /\ UNCHANGED <<exit_code, launches, script, journal, added,
                                 num_new_fields_prev, i, i_prev,
                                 bad_weather, dome_polled, first_exposure, mode, pause_flag, focus_done, offset_done,
                                 stop_flag, stow_flag, camera, locals>>

\* ------------------------------------------------------------------------
\* The camera (scheduler_camera.c)
\* ------------------------------------------------------------------------
\* wait_camera_readout polls the done-semaphore for READOUT_TIME_SEC: a
\* thread that posts within the wait has posted before it, in the model
wait_camera_readout(pending, done) ==
    IF pending /\ done > 0 THEN [result |-> 0, pending |-> FALSE, done |-> done - 1]
    ELSE IF pending THEN [result |-> 0 - 1, pending |-> TRUE, done |-> done]
    ELSE [result |-> 0, pending |-> pending, done |-> done]

\* the replies of the camera, word by word: DONE_REPLY, ERROR_REPLY and the
\* name of the latter macro, which the code looks for.  The empty reply
\* stands for none (send_command fails or the reply is empty).
ReplyWords == {"DONE", "ERROR", "ERROR_REPLY"}
Replies == UNION {[1..k -> ReplyWords] : k \in 0..MaxReplyLen}

Contains(reply, word) == \E k \in DOMAIN reply : reply[k] = word

\* do_command: strstr(reply,DONE_REPLY)==NULL || strlen(reply) == 0 ||
\* strstr(reply,"ERROR_REPLY") != NULL is an error
do_command(reply) ==
    IF reply = << >> THEN 0 - 1
    ELSE IF ~Contains(reply, "DONE") \/ Contains(reply, "ERROR_REPLY") THEN 0 - 1
    ELSE 0

\* do_camera_command_thread, from the reply of the camera to pthread_exit:
\* the done-semaphore is posted whatever the result is
WorkerFinish(reply) ==
    /\ pc \in {"top", "body", "selected", "readwait"}
    /\ workers > 0
    /\ faults + Cost(reply = << "DONE" >>) <= MaxFaults
    /\ faults' = faults + Cost(reply = << "DONE" >>)
    /\ workers' = workers - 1
    /\ worker_result' = do_command(reply)
    /\ command_done_semaphore' = command_done_semaphore + 1
    /\ UNCHANGED <<pc, exit_code, launches, script, journal, added, sent, jd,
                   memory, readout_pending, exposed, command_start_semaphore,
                   readout_result, locals>>

\* a variant of take_exposure that waits for the readout itself
\* expose_timeout: the timeout of the expose command, exp_time in ticks
ExpModes == {"single", "first", "next", "last"}

expose_timeout(exp_mode, exp_time, wait_flag) ==
    LET t == IF ~wait_flag THEN exp_time + READOUT_TIME_SEC * SECOND
             ELSE IF exp_mode = "single" THEN
                 exp_time + READOUT_TIME_SEC * SECOND + TRANSFER_TIME_SEC * SECOND
             ELSE IF exp_mode = "first" THEN exp_time + READOUT_TIME_SEC * SECOND
             ELSE IF exp_mode = "next" THEN
                 IF exp_time + READOUT_TIME_SEC * SECOND > TRANSFER_TIME_SEC * SECOND
                 THEN exp_time ELSE TRANSFER_TIME_SEC * SECOND
             ELSE TRANSFER_TIME_SEC * SECOND
    IN  t + 5 * SECOND

take_exposure_wait(start, started) ==
    [pending |-> FALSE, start |-> start, sent |-> 0]

\* take_exposure with wait_flag False, and the first lines of the thread it
\* creates.  The thread waits for the start-semaphore with an absolute
\* timeout that lies in 1970: it goes on only if a post is there when it
\* looks.  `started` says whether it looked after main posted.
take_exposure(start, started) ==
    IF started \/ start > 0
    THEN [pending |-> TRUE, start |-> start, sent |-> 1]
    ELSE [pending |-> TRUE, start |-> start + 1, sent |-> 0]

\* the exposure thread of the visit before has not answered when
\* wait_camera_readout gives up
CameraLate == readout_pending /\ command_done_semaphore = 0 /\ workers > 0

\* ------------------------------------------------------------------------
\* observe_next_field.  `fail` names the step that fails, jd_obs is the
\* clock at its start.
\* ------------------------------------------------------------------------
IsDarkOrDome(f) == f.shutter = DARK_CODE \/ f.shutter = DOME_FLAT_CODE

\* the local sidereal time the telescope reports, in thousandths of an hour
lst_of(t) == (Sky.lst_sunset + (t * 1000) \div HOUR) % 24000

\* the hour angle observe_next_field works with
hour_angle(f, t) ==
    LET ha == lst_of(t) - f.ra
    IN  IF f.shutter = SKY_CODE THEN
            (IF ha < 0 - 12000 THEN ha + 24000
             ELSE IF ha > 12000 THEN ha - 24000 ELSE ha)
        ELSE IF f.n_done # 0 \/ IsDarkOrDome(f) THEN 0
        ELSE IF f.shutter = MORNING_FLAT_CODE THEN 3000
        ELSE IF f.shutter = EVENING_FLAT_CODE THEN 0 - 3000
        ELSE 0 - 1000

\* the first exposure of a focus sequence, an offset field or a flat sets
\* the position of the field
SetPosition(f, t) ==
    IF f.n_done # 0 THEN f
    ELSE IF f.shutter = FOCUS_CODE \/ f.shutter = OFFSET_CODE THEN
        [f EXCEPT !.ra = lst_of(t) + 1000, !.dec = 0]
    ELSE IF f.shutter = EVENING_FLAT_CODE THEN
        [f EXCEPT !.ra = IF lst_of(t) + 3000 > 24000 THEN lst_of(t) - 21000
                         ELSE lst_of(t) + 3000,
                  !.dec = 0]
    ELSE IF f.shutter = MORNING_FLAT_CODE THEN
        [f EXCEPT !.ra = IF lst_of(t) - 4000 < 0 THEN lst_of(t) + 20000
                         ELSE lst_of(t) - 4000,
                  !.dec = 0]
    ELSE f

\* a long exposure in the west is split
LONG_EXPTIME == HOUR

\* a variant of SplitCount that rounds up
SplitCountCeiling(f, t) ==
    IF hour_angle(f, t) > 0 /\ f.expt > LONG_EXPTIME
    THEN (f.expt + LONG_EXPTIME - 1) \div LONG_EXPTIME ELSE 1

\* num_exposures = f->expt/LONG_EXPTIME; num_exposures++;
SplitCount(f, t) ==
    IF hour_angle(f, t) > 0 /\ f.expt > LONG_EXPTIME
    THEN f.expt \div LONG_EXPTIME + 1 ELSE 1

\* a variant of MarkUndone without the test of n_done
MarkUndoneAlways(seq, index_prev, jd_obs) ==
    IF index_prev >= 0
    THEN [seq EXCEPT ![index_prev].n_done = @ - 1, ![index_prev].jd_next = jd_obs]
    ELSE seq

\* the previous exposure is marked undone after a bad readout
MarkUndone(seq, index_prev, jd_obs) ==
    IF index_prev >= 0 /\ seq[index_prev].n_done > 0
    THEN [seq EXCEPT ![index_prev].n_done = @ - 1, ![index_prev].jd_next = jd_obs]
    ELSE seq

\* the exposure is recorded as done as soon as take_exposure returns
RecordExposure(seq, index, jd_exp) ==
    [seq EXCEPT ![index].n_done = @ + 1,
                ![index].jd_next = jd_exp + seq[index].interval]

\* one pass of the loop of exposures, up to the record of the exposure:
\* take_exposure fails before it marks the readout pending ("header"), when
\* it cannot create the thread ("thread"), or while it waits for the end of
\* the exposure ("expwait")
Expose(seq, index, jd_exp, pending, start, fail, started) ==
    LET x0 == take_exposure(start, started)
        \* the header, and the expose command if the thread sent it
        x == [pending |-> x0.pending, start |-> x0.start, sent |-> x0.sent,
              cmds |-> IF x0.sent = 1 THEN {"header", "expose"} ELSE {"header"}]
    IN  IF fail = "header" THEN
            [ret |-> 0 - 1, seq |-> seq, pending |-> pending, start |-> start,
             sent |-> 0, cmds |-> {"header"}, started |-> FALSE]
        ELSE IF fail = "thread" THEN
            [ret |-> 0 - 1, seq |-> seq, pending |-> FALSE, start |-> start,
             sent |-> 0, cmds |-> {"header"}, started |-> FALSE]
        ELSE IF fail = "expwait" THEN
            [ret |-> 0 - 1, seq |-> seq, pending |-> x.pending, start |-> x.start,
             sent |-> x.sent, cmds |-> x.cmds, started |-> TRUE]
        ELSE
            [ret |-> 0, seq |-> RecordExposure(seq, index, jd_exp),
             pending |-> x.pending, start |-> x.start, sent |-> x.sent,
             cmds |-> x.cmds, started |-> TRUE]

\* the clears of the camera before an exposure, when the last exposure was
\* more than CLEAR_INTERVAL ago or there was none since startup
Clears(clear_due) ==
    IF clear_due THEN [k \in 1..NUM_CAMERA_CLEARS |-> "clear"] ELSE << >>

\* a variant of ObserveCommands that sets the focus before it points
ObserveCommandsFocusFirst(f, clear_due) ==
    (IF f.shutter = FOCUS_CODE THEN << "focus" >> ELSE << >>)
    \o (IF IsDarkOrDome(f) THEN << >> ELSE << "track" >>)
    \o << "wait" >> \o Clears(clear_due) \o << "header", "expose" >>

\* the commands of observe_next_field up to its first exposure, in the order
\* of the code: point_telescope, set_telescope_focus, wait_camera_readout for
\* the exposure before, clear_camera, and in take_exposure
\* imprint_fits_header and the expose command
ObserveCommands(f, clear_due) ==
    (IF IsDarkOrDome(f) THEN << >> ELSE << "track" >>)
    \o (IF f.shutter = FOCUS_CODE THEN << "focus" >> ELSE << >>)
    \o << "wait" >> \o Clears(clear_due) \o << "header", "expose" >>

\* observe_next_field up to the first pass of its loop of exposures
observe_next_field(seq, index, index_prev, jd_obs, cam, fail, started) ==
    LET k == SplitCount(seq[index], jd_obs)
        s0 == [seq EXCEPT ![index] =
                  [SetPosition(@, jd_obs) EXCEPT !.n_required = @ + k - 1]]
        w == wait_camera_readout(cam.pending, cam.done)
        s1 == IF w.result # 0 THEN MarkUndone(s0, index_prev, jd_obs) ELSE s0
        e == Expose(s1, index, jd_obs, w.pending, cam.start, fail, started)
        failed == [ret |-> 0 - 1, seq |-> seq, pointed |-> FALSE,
                   pending |-> cam.pending, start |-> cam.start,
                   done |-> cam.done, sent |-> 0, readout |-> cam.readout,
                   num_exposures |-> k, cmds |-> {}, started |-> FALSE]
        track == IF IsDarkOrDome(seq[index]) THEN {} ELSE {"track"}
    IN  IF fail = "status" THEN failed
        ELSE IF s0[index].n_required > MAX_OBS_PER_FIELD THEN
            [failed EXCEPT !.seq = s0]
        ELSE IF fail = "point" THEN
            [failed EXCEPT !.seq = s0, !.cmds = track]
        ELSE
            [ret |-> e.ret, seq |-> e.seq, pointed |-> TRUE, pending |-> e.pending,
             start |-> e.start, done |-> w.done, sent |-> e.sent,
             readout |-> w.result, num_exposures |-> k,
             cmds |-> track \cup e.cmds, started |-> e.started]

\* ------------------------------------------------------------------------
\* The observing loop of main
\* ------------------------------------------------------------------------
\* do_stop: stop_flag is set if the telescope takes the stop command
do_stop(stop_ok) == IF stop_ok THEN 1 ELSE stop_flag

\* the file of new fields has grown: `new` is new_sequence after init_fields,
\* which returned num_new_observable_fields
NewFieldsAdd(new, num_new_fields, num_new_observable_fields) ==
    LET a == add_new_fields(sequence, num_fields, new, num_new_fields_prev,
                            num_new_fields)
        add == num_new_observable_fields > 0 /\ a.ret = 0
    IN  [new_sequence |-> new,
         nt |-> init_night_start(nt, jd),
         sequence |-> IF add THEN a.seq ELSE sequence,
         num_fields |-> IF add THEN num_fields + num_new_fields ELSE num_fields,
         num_new_fields_prev |-> num_new_fields]

\* the file of new fields was loaded into new_sequence: ld is what
\* load_sequence left and returned
NewFieldsLoaded(ld) ==
    IF ld.num_fields > num_new_fields_prev
    THEN NewFieldsAdd(init_new_fields(ld.seq, num_new_fields_prev,
                                      ld.num_fields, nt, jd),
                      ld.num_fields,
                      n_observable(ld.seq, num_new_fields_prev, ld.num_fields,
                                   nt, jd))
    ELSE [new_sequence |-> ld.seq, nt |-> nt, sequence |-> sequence,
          num_fields |-> num_fields,
          num_new_fields_prev |-> num_new_fields_prev]

\* the head of the loop reads the file of new fields, which holds `lines`
\* lines (none when the file does not exist)
NewFieldsRead(lines) ==
    NewFieldsLoaded(IF lines = 0
                    THEN [seq |-> new_sequence, num_fields |-> 0]
                    ELSE load_lines(new_sequence, 0,
                                    SubSeq(NewFields[script], 1, lines), 1))

NewFieldsStore(r) ==
    /\ new_sequence' = r.new_sequence
    /\ nt' = r.nt
    /\ sequence' = r.sequence
    /\ num_fields' = r.num_fields
    /\ num_new_fields_prev' = r.num_new_fields_prev

\* a variant of LoopCondition that is true half an hour longer
LoopConditionLate == jd < nt.jd_sunrise + ClockStep

\* while(jd<nt.jd_sunrise && !done): done is set where the loop body finds
\* jd > nt.jd_sunrise, which the same reading of the clock excludes
LoopCondition == jd < nt.jd_sunrise

\* from the loop condition to the stop on bad weather
LoopTop(tel_ok, dome_open, stop_ok) ==
    /\ pc = "top"
    /\ faults + Cost(tel_ok) + Cost(dome_open) + Cost(stop_ok) <= MaxFaults
    /\ faults' = faults + Cost(tel_ok) + Cost(dome_open) + Cost(stop_ok)
    /\ IF ~LoopCondition THEN
           /\ tel_ok /\ dome_open /\ stop_ok
           /\ do_exit(0, IF jd > nt.jd_sunrise THEN {"stow"} ELSE {})
           /\ UNCHANGED <<jd, journal>>
       ELSE
           /\ pc' = "body"
           /\ NewFieldsStore(NewFieldsRead(added))
           /\ IF pause_flag # 0 THEN
                  /\ tel_ok /\ dome_open
                  /\ bad_weather' = FALSE
                  /\ dome_polled' = FALSE
                  /\ UNCHANGED <<telescope_ready, stow_flag>>
              ELSE IF ~tel_ok THEN
                  /\ dome_open
                  /\ bad_weather' = TRUE
                  /\ dome_polled' = FALSE
                  /\ telescope_ready' = FALSE
                  /\ UNCHANGED stow_flag
              ELSE
                  /\ telescope_ready' = TRUE
                  /\ bad_weather' = ~dome_open
                  /\ dome_polled' = dome_open
                  /\ stow_flag' = IF dome_open THEN 0 ELSE stow_flag
           /\ IF telescope_ready' /\ bad_weather' /\ stop_flag = 0
              THEN stop_flag' = do_stop(stop_ok) /\ sent' = {"stop"}
              ELSE stop_ok /\ sent' = {} /\ UNCHANGED stop_flag
           /\ UNCHANGED <<exit_code, launches, script, journal, added, jd, i, first_exposure, mode,
                          i_prev, pause_flag, focus_done, offset_done, camera,
                          locals>>

\* the last exposure of a focus sequence, or of an offset field, was taken
FocusPending ==
    /\ telescope_ready /\ i_prev >= 0 /\ focus_done = 0
    /\ sequence[i_prev].shutter = FOCUS_CODE
    /\ sequence[i_prev].n_done = sequence[i_prev].n_required

OffsetPending ==
    /\ i_prev >= 0 /\ sequence[i_prev].shutter = OFFSET_CODE /\ offset_done = 0
    /\ sequence[i_prev].n_done = sequence[i_prev].n_required

\* a variant of PauseCommands: the pause branch only sleeps
PauseCommandsNone == {}

\* what the pause branch sends to the telescope
PauseCommands ==
    IF telescope_ready /\ bad_weather /\ stop_flag = 0 THEN {"stow"}
    ELSE IF telescope_ready /\ stop_flag = 0 THEN {"stop"}
    ELSE {}

\* the pause branch: stop or stow the telescope, sleep
PauseIdle(stop_ok) ==
    /\ pc = "body"
    /\ pause_flag # 0
    /\ faults + Cost(stop_ok) <= MaxFaults
    /\ faults' = faults + Cost(stop_ok)
    /\ pc' = "top"
    /\ jd' = jd + ClockStep
    /\ sent' = PauseCommands
    /\ IF "stow" \in PauseCommands THEN
           stop_ok /\ stow_flag' = 1 /\ stop_flag' = 1
       ELSE IF "stop" \in PauseCommands THEN
           stop_flag' = do_stop(stop_ok) /\ UNCHANGED stow_flag
       ELSE stop_ok /\ UNCHANGED <<stop_flag, stow_flag>>
    /\ UNCHANGED <<exit_code, launches, script, journal, added, nt, sequence,
                   num_fields, new_sequence, num_new_fields_prev, i, i_prev,
                   bad_weather, dome_polled, first_exposure, mode, telescope_ready, pause_flag, focus_done,
                   offset_done, camera, locals>>

\* a variant of focus_telescope that returns 0 whatever the telescope does
focus_telescope_lenient(focus) ==
    [result |-> 0,
     sent |-> IF focus = "best" THEN {"focus best"} ELSE {"focus default"}]

\* focus_telescope (scheduler_telescope.c).  `focus` says how it goes:
\* "best" (the focus script gives a median within the limits, which is
\* set), "default" (it gives none, or one out of range: focus_default is
\* set), "fail" (the telescope does not take the focus, or its status).  It
\* returns 0 or -1, never a value above 0.
focus_telescope(focus) ==
    [result |-> IF focus = "fail" THEN 0 - 1 ELSE 0,
     sent |-> IF focus = "best" THEN {"focus best"} ELSE {"focus default"}]

\* the focus branch: wait for the readout of the last exposure of the focus
\* sequence, then focus the telescope
FocusBranch(focus) ==
    /\ pc = "body"
    /\ pause_flag = 0 /\ FocusPending
    /\ LET w == wait_camera_readout(readout_pending, command_done_semaphore)
           cost == Cost(focus = "best") + Cost(~CameraLate)
           r == focus_telescope(focus)
       IN  /\ faults + cost <= MaxFaults
           /\ faults' = faults + cost
           /\ IF w.result # 0 THEN
                  /\ focus = "best"
                  /\ sequence' = [sequence EXCEPT ![i_prev].n_done = @ - 1]
                  /\ readout_pending' = w.pending
                  /\ command_done_semaphore' = w.done
                  /\ readout_result' = w.result
                  /\ pc' = "top"
                  /\ sent' = {}
                  /\ UNCHANGED <<exit_code, launches, script, journal, added, nt,
                                 num_fields, new_sequence, num_new_fields_prev,
                                 i, i_prev, bad_weather, dome_polled, first_exposure, mode,
                                 telescope_ready, pause_flag, focus_done,
                                 offset_done, stop_flag, stow_flag,
                                 exposed, command_start_semaphore, workers,
                                 worker_result,
                                 locals>>
              ELSE IF r.result < 0 THEN
                  /\ journal' = save_obs_record(
                                   [sequence EXCEPT ![i_prev].n_done = 0], num_fields)
                  /\ do_exit(0 - 1, r.sent)
              ELSE
                  /\ focus_done' = IF r.result > 0 THEN focus_done ELSE 1
                  /\ readout_pending' = w.pending
                  /\ command_done_semaphore' = w.done
                  /\ readout_result' = w.result
                  /\ pc' = "top"
                  /\ sent' = r.sent
                  /\ UNCHANGED <<exit_code, launches, script, journal, added, nt,
                                 sequence, num_fields, new_sequence,
                                 num_new_fields_prev, i, i_prev, bad_weather, dome_polled, first_exposure, mode,
                                 telescope_ready, pause_flag, offset_done,
                                 stop_flag, stow_flag, exposed,
                                 command_start_semaphore,
                                 workers, worker_result, locals>>
    /\ UNCHANGED jd

\* the offset branch: wait for the readout of the offset exposure, then get
\* the offsets of the telescope
OffsetBranch ==
    /\ pc = "body"
    /\ pause_flag = 0 /\ ~FocusPending /\ OffsetPending
    /\ faults + Cost(~CameraLate) <= MaxFaults
    /\ faults' = faults + Cost(~CameraLate)
    /\ LET w == wait_camera_readout(readout_pending, command_done_semaphore)
       IN  /\ sequence' = IF w.result # 0
                          THEN [sequence EXCEPT ![i_prev].n_done = @ - 1]
                          ELSE sequence
           /\ offset_done' = IF w.result # 0 THEN offset_done ELSE 1
           /\ readout_pending' = w.pending
           /\ command_done_semaphore' = w.done
           /\ readout_result' = w.result
    /\ pc' = "top"
    /\ sent' = {}
    /\ UNCHANGED <<exit_code, launches, script, journal, added, jd, nt,
                   num_fields, new_sequence, num_new_fields_prev, i,
                   i_prev, bad_weather, dome_polled, first_exposure, mode, telescope_ready, pause_flag, focus_done,
                   stop_flag, stow_flag, exposed, command_start_semaphore, workers,
                   worker_result, locals>>

\* the call of get_next_field
SelectField ==
    /\ pc = "body"
    /\ pause_flag = 0 /\ ~FocusPending /\ ~OffsetPending
    /\ LET r == get_next_field(sequence, num_fields, i_prev, jd, bad_weather)
       IN  sequence' = r.seq /\ i' = r.ret
    /\ pc' = "selected"
    /\ sent' = {}
    /\ UNCHANGED <<exit_code, launches, faults, script, journal, added, jd, nt,
                   num_fields, new_sequence, num_new_fields_prev,
                   i_prev, bad_weather, dome_polled, first_exposure, mode, telescope_ready, pause_flag, focus_done,
                   offset_done, stop_flag, stow_flag, camera, locals>>

\* no field to observe: stop the telescope, sleep
NoField(stop_ok) ==
    /\ pc = "selected"
    /\ i < 0
    /\ faults + Cost(stop_ok) <= MaxFaults
    /\ faults' = faults + Cost(stop_ok)
    /\ pc' = "top"
    /\ jd' = jd + ClockStep
    /\ IF telescope_ready /\ stop_flag = 0
       THEN stop_flag' = do_stop(stop_ok) /\ sent' = {"stop"}
       ELSE stop_ok /\ sent' = {} /\ UNCHANGED stop_flag
    /\ UNCHANGED <<exit_code, launches, script, journal, added, nt, sequence,
                   num_fields, new_sequence, num_new_fields_prev,
                   i, i_prev, bad_weather, dome_polled, first_exposure, mode, telescope_ready, pause_flag,
                   focus_done, offset_done, stow_flag, camera, locals>>

\* a variant of MayObserve that asks for good weather whatever the field is
MayObserveGoodWeather == i >= 0 /\ ~bad_weather /\ telescope_ready

MayObserve ==
    i >= 0 /\ (IsDarkOrDome(sequence[i]) \/ (~bad_weather /\ telescope_ready))

\* a field was chosen but the weather is bad or the telescope is not ready
WaitForWeather ==
    /\ pc = "selected"
    /\ i >= 0 /\ ~MayObserve
    /\ pc' = "top"
    /\ jd' = jd + ClockStep
    /\ sent' = {}
    /\ UNCHANGED <<exit_code, launches, faults, script, journal, added, memory,
                   camera, locals>>

\* main after observe_next_field returned ret: stop the telescope if it
\* failed, save the journal, remember the field.  `moving` says whether the
\* telescope was pointed since it was stopped.
EndObserve(ret, seq, moving, stop_ok, cmds) ==
    /\ sequence' = seq
    /\ IF ret # 0 /\ telescope_ready /\ moving
       THEN /\ stop_flag' = (IF stop_ok THEN 1 ELSE 0)
            /\ sent' = cmds \cup {"stop"}
       ELSE /\ stop_ok /\ stop_flag' = (IF moving THEN 0 ELSE stop_flag)
            /\ sent' = cmds
    /\ journal' = save_obs_record(seq, num_fields)
    /\ i_prev' = i
    /\ pc' = "top"
    /\ jd' = jd + ClockStep
    /\ n' = 0
    /\ num_exposures' = 1
    /\ bad_read_count' = 0

Fails == {"none", "status", "point", "header", "thread", "expwait"}

\* observe field i: observe_next_field up to its first exposure, and the
\* rest of the iteration if that was the only one
Observe(fail, started, stop_ok) ==
    /\ pc = "selected"
    /\ MayObserve
    /\ workers < MaxWorkers
    /\ IsDarkOrDome(sequence[i]) => fail \notin {"status", "point"}
    /\ fail \notin {"none", "expwait"} => started
    /\ LET waits == fail \notin {"status", "point"}
           cost == Cost(fail = "none") + Cost(started) + Cost(stop_ok)
                   + Cost(~(waits /\ CameraLate))
       IN  faults + cost <= MaxFaults /\ faults' = faults + cost
    /\ LET cam == [pending |-> readout_pending, start |-> command_start_semaphore,
                   done |-> command_done_semaphore, readout |-> readout_result]
           o == observe_next_field(sequence, i, i_prev, jd, cam, fail, started)
           moving == IF o.pointed /\ ~IsDarkOrDome(sequence[i]) THEN TRUE
                     ELSE stop_flag = 0
       IN  /\ readout_pending' = o.pending
           /\ exposed' = (IF o.started THEN i ELSE exposed)
           /\ command_start_semaphore' = o.start
           /\ command_done_semaphore' = o.done
           /\ workers' = workers + o.sent
           /\ readout_result' = o.readout
           /\ IF o.ret = 0 /\ 1 < o.num_exposures THEN
                  /\ stop_ok
                  /\ sequence' = o.seq
                  /\ stop_flag' = (IF moving THEN 0 ELSE stop_flag)
                  /\ pc' = "readwait"
                  /\ jd' = jd + ClockStep
                  /\ n' = 1
                  /\ num_exposures' = o.num_exposures
                  /\ bad_read_count' = 0
                  /\ sent' = o.cmds
                  /\ UNCHANGED <<journal, i_prev>>
              ELSE EndObserve(o.ret, o.seq, moving, stop_ok, o.cmds)
    /\ mode' = (IF first_exposure THEN "first" ELSE "next")
    /\ first_exposure' = FALSE
    /\ focus_done' = IF focus_done # 0 /\ sequence[i].shutter = FOCUS_CODE
                     THEN 0 ELSE focus_done
    /\ offset_done' = IF ~(focus_done # 0 /\ sequence[i].shutter = FOCUS_CODE)
                         /\ offset_done # 0 /\ sequence[i].shutter = OFFSET_CODE
                      THEN 0 ELSE offset_done
    /\ UNCHANGED <<exit_code, launches, script, added, nt, num_fields,
                   new_sequence, num_new_fields_prev, i, bad_weather, dome_polled,
                   telescope_ready, pause_flag, stow_flag, worker_result>>

\* if(bad_read_count>MAX_BAD_READOUTS) return(-1), after bad_read_count++
TooManyBadReads(count) == count > MAX_BAD_READOUTS

\* the loop of exposures of observe_next_field from the wait for the readout
\* of exposure n to the next exposure, and the rest of the iteration after
\* the last one
ExposeNext(tel_ok, fail, started, stop_ok) ==
    /\ pc = "readwait"
    /\ workers < MaxWorkers
    /\ fail \in {"none", "header", "thread", "expwait"}
    /\ fail \notin {"none", "expwait"} => started
    /\ LET cost == Cost(tel_ok) + Cost(fail = "none") + Cost(started)
                   + Cost(stop_ok) + Cost(~CameraLate)
       IN  faults + cost <= MaxFaults /\ faults' = faults + cost
    /\ LET w == wait_camera_readout(readout_pending, command_done_semaphore)
           bad == w.result # 0
           s1 == IF bad THEN [sequence EXCEPT ![i].n_done = @ - 1] ELSE sequence
           n1 == IF bad THEN n - 1 ELSE n
           count == IF bad THEN bad_read_count + 1 ELSE bad_read_count
           e == Expose(s1, i, jd, w.pending, command_start_semaphore, fail, started)
           moving == stop_flag = 0
       IN  /\ command_done_semaphore' = w.done
           /\ readout_result' = w.result
           /\ IF (bad /\ TooManyBadReads(count)) \/ ~tel_ok THEN
                  /\ fail = "none" /\ started
                  /\ (bad /\ TooManyBadReads(count)) => tel_ok
                  /\ readout_pending' = w.pending
                  /\ UNCHANGED <<exposed, command_start_semaphore, workers>>
                  /\ EndObserve(0 - 1, s1, moving, stop_ok, {})
              ELSE
                  /\ readout_pending' = e.pending
                  /\ exposed' = (IF e.started THEN i ELSE exposed)
                  /\ command_start_semaphore' = e.start
                  /\ workers' = workers + e.sent
                  /\ IF e.ret = 0 /\ n1 + 1 < num_exposures THEN
                         /\ stop_ok
                         /\ sequence' = e.seq
                         /\ n' = n1 + 1
                         /\ bad_read_count' = count
                         /\ jd' = jd + ClockStep
                         /\ sent' = e.cmds
                         /\ UNCHANGED <<pc, journal, i_prev, stop_flag,
                                        num_exposures>>
                     ELSE EndObserve(e.ret, e.seq, moving, stop_ok, e.cmds)
    /\ UNCHANGED <<exit_code, launches, script, added, nt, num_fields,
                   new_sequence, num_new_fields_prev, i, bad_weather, dome_polled, first_exposure, mode,
                   telescope_ready, pause_flag, focus_done, offset_done,
                   stow_flag, worker_result>>

\* ------------------------------------------------------------------------
\* Signals (scheduler_signals.c)
\* ------------------------------------------------------------------------
Running == pc \in {"boot", "top", "body", "selected", "readwait"}

sigusr1_handler ==
    /\ Running /\ pause_flag = 0
    /\ faults < MaxFaults
    /\ faults' = faults + 1
    /\ pause_flag' = 1
    /\ sent' = {}
    /\ UNCHANGED <<pc, exit_code, launches, script, journal, added, jd, nt,
                   sequence, num_fields, new_sequence, num_new_fields_prev, i,
                   i_prev, bad_weather, dome_polled, first_exposure, mode, telescope_ready,
                   focus_done, offset_done, stop_flag, stow_flag, camera, locals>>

sigusr2_handler ==
    /\ Running /\ pause_flag # 0
    /\ pause_flag' = 0
    /\ sent' = {}
    /\ UNCHANGED <<pc, exit_code, launches, faults, script, journal, added, jd,
                   nt, sequence, num_fields, new_sequence, num_new_fields_prev,
                   i, i_prev, bad_weather, dome_polled, first_exposure, mode, telescope_ready,
                   focus_done, offset_done, stop_flag, stow_flag, camera, locals>>

sigterm_handler ==
    /\ Running
    /\ faults < MaxFaults
    /\ faults' = faults + 1
    /\ do_exit(1, {})
    /\ UNCHANGED <<jd, journal>>

\* ------------------------------------------------------------------------
\* The operator appends lines to the file of new fields.  The file is read
\* at the head of the loop only, so it is enough to let it grow there.
\* ------------------------------------------------------------------------
AppendNewFields(lines) ==
    /\ pc = "top"
    /\ added < lines /\ lines <= Len(NewFields[script])
    /\ faults < MaxFaults
    /\ faults' = faults + 1
    /\ added' = lines
    /\ UNCHANGED <<pc, exit_code, launches, script, journal, sent, jd, memory,
                   camera, locals>>

Next ==
    \/ Launch
    \/ \E g \in UninitializedFields, late, cam_ok, tel_ok \in BOOLEAN :
          Startup(g, late, cam_ok, tel_ok)
    \/ \E tel_ok, dome_open, stop_ok \in BOOLEAN : LoopTop(tel_ok, dome_open, stop_ok)
    \/ \E stop_ok \in BOOLEAN : PauseIdle(stop_ok)
    \/ \E focus \in {"best", "default", "fail"} : FocusBranch(focus)
    \/ OffsetBranch
    \/ SelectField
    \/ \E stop_ok \in BOOLEAN : NoField(stop_ok)
    \/ WaitForWeather
    \/ \E fail \in Fails, started, stop_ok \in BOOLEAN : Observe(fail, started, stop_ok)
    \/ \E tel_ok, started, stop_ok \in BOOLEAN :
          \E fail \in Fails : ExposeNext(tel_ok, fail, started, stop_ok)
    \/ \E reply \in Replies : WorkerFinish(reply)
    \/ sigusr1_handler
    \/ sigusr2_handler
    \/ sigterm_handler
    \/ \E lines \in DOMAIN NewFields[Len(Scripts)] : AppendNewFields(lines)

Spec == Init /\ [][Next]_vars

\* the steps of main
MainStep ==
    \/ \E g \in UninitializedFields, late, cam_ok, tel_ok \in BOOLEAN :
          Startup(g, late, cam_ok, tel_ok)
    \/ \E tel_ok, dome_open, stop_ok \in BOOLEAN : LoopTop(tel_ok, dome_open, stop_ok)
    \/ \E stop_ok \in BOOLEAN : PauseIdle(stop_ok)
    \/ \E focus \in {"best", "default", "fail"} : FocusBranch(focus)
    \/ OffsetBranch
    \/ SelectField
    \/ \E stop_ok \in BOOLEAN : NoField(stop_ok)
    \/ WaitForWeather
    \/ \E fail \in Fails, started, stop_ok \in BOOLEAN : Observe(fail, started, stop_ok)
    \/ \E tel_ok, started, stop_ok \in BOOLEAN :
          \E fail \in Fails : ExposeNext(tel_ok, fail, started, stop_ok)

\* ------------------------------------------------------------------------
\* Properties
\* ------------------------------------------------------------------------
InBounds == 0..(num_fields - 1)

\* the n_done a journal holds for its k-th record (0 where it has none)
JournalCount(file, k) == IF k <= Len(file) THEN file[k].n_done ELSE 0

\* C1: when the scheduler is launched again and scheduler.bin exists, the
\* array the observing loop starts with has the n_done of every journalled
\* field
C1_ResumesFromJournal ==
    [][(pc = "boot" /\ pc' = "top" /\ Len(journal) > 0) =>
          \A k \in 1..Len(journal) : sequence'[k - 1].n_done = journal[k].n_done]_vars

\* C2: when the camera answered the expose command of a visit with ERROR,
\* the wait for the readout that takes the thread's post returns a bad
\* readout
C2_ErrorReplyIsBadReadout ==
    [][(Running /\ pc' # "exited" /\ readout_pending /\ workers = 0
        /\ command_done_semaphore = 1 /\ worker_result # 0
        /\ command_done_semaphore' = 0)
          => readout_result' # 0]_vars

\* C3: a field whose n_done is decremented stays schedulable (doable), also
\* when the visit that is undone was its last required one
C3_UndoneStaysDoable ==
    [][\A s \in InBounds :
          (Running /\ pc' # "exited" /\ sequence'[s].n_done < sequence[s].n_done)
             => sequence'[s].doable # 0]_vars

C5_JournalOnlyConfirmed ==
    [][\A k \in 1..Len(journal') :
          (Running /\ pc' # "exited"
           /\ JournalCount(journal', k) > JournalCount(journal, k))
             => ~readout_pending']_vars

\* the step that ends an iteration in which main called observe_next_field
ObserveEnds ==
    /\ (pc = "selected" /\ MayObserve) \/ pc = "readwait"
    /\ pc' = "top"

\* C5 as amended: at the end of every iteration that called
\* observe_next_field the journal is written with the array as it is in
\* memory, the visit whose readout is pending included
C5_JournalIsMemory ==
    [][ObserveEnds =>
          /\ Len(journal') = num_fields
          /\ \A k \in 1..num_fields : journal'[k] = sequence'[k - 1]]_vars

\* the journal holds a visit whose exposure thread is still running
C5_Witness ==
    /\ pc = "top" /\ readout_pending /\ workers > 0
    /\ i_prev \in InBounds
    /\ Len(journal) = num_fields
    /\ journal[i_prev + 1].n_done = sequence[i_prev].n_done
    /\ journal[i_prev + 1].n_done > 0

\* C6: for every field of the sequence, 0 <= n_done <= n_required
C6_CountWithinBounds ==
    \A s \in InBounds :
        0 <= sequence[s].n_done /\ sequence[s].n_done <= sequence[s].n_required

\* a field of several visits is complete after an iteration whose wait for
\* the readout failed
C6_Witness ==
    /\ pc = "top" /\ readout_result # 0
    /\ \E s \in InBounds :
          /\ sequence[s].n_required > 1
          /\ sequence[s].n_done = sequence[s].n_required

\* C7: when get_next_field has returned, and between the iterations of the
\* loop, every field with doable 0 has NOT_DOABLE_STATUS
C7_NotDoableStatus ==
    Running =>
        \A s \in InBounds :
            sequence[s].doable = 0 => sequence[s].status = NOT_DOABLE_STATUS

\* get_next_field has returned and left a completed field not doable
C7_Witness ==
    /\ pc = "selected"
    /\ \E s \in InBounds :
          /\ sequence[s].doable = 0
          /\ sequence[s].n_required > 0
          /\ sequence[s].n_done = sequence[s].n_required

\* the step of the loop that calls get_next_field
Selects == pc = "body" /\ pc' = "selected"

\* the array after the first loop of the call
Updated == FirstPass(sequence, num_fields, jd, bad_weather)

DarkDoNow(s) ==
    \E d \in InBounds : IsDarkOrDome(s[d]) /\ s[d].status = DO_NOW_STATUS

MustDoPending(s) ==
    \E m \in InBounds :
        /\ s[m].survey_code = MUSTDO_SURVEY_CODE
        /\ s[m].status \in {READY_STATUS, TOO_LATE_STATUS}

PairReady(s) ==
    /\ i_prev >= 0 /\ i_prev + 1 < num_fields
    /\ s[i_prev].shutter = SKY_CODE /\ s[i_prev + 1].shutter = SKY_CODE
    /\ s[i_prev].dec = s[i_prev + 1].dec
    /\ Abs(s[i_prev + 1].ra - s[i_prev].ra) * 1000
          < RA_STEP0 * SecantMilli(s[i_prev].dec)
    /\ s[i_prev + 1].status = READY_STATUS

\* C9 as the specification states it: if the pair of the previous field is
\* at the next index and has READY_STATUS, its index is returned
C9_PairFirst ==
    [][(Selects /\ PairReady(Updated)) => i' = i_prev + 1]_vars

\* C9 as amended: the same, if no MUST-DO field has READY_STATUS or
\* TOO_LATE_STATUS and no field has DO_NOW_STATUS after the status update
C9_PairAfterMustDoAndDoNow ==
    [][(Selects /\ PairReady(Updated) /\ ~MustDoPending(Updated)
        /\ \A d \in InBounds : Updated[d].status # DO_NOW_STATUS)
          => i' = i_prev + 1]_vars

\* the pair is returned although another ready field has less time left
C9_Witness ==
    /\ pc = "selected"
    /\ i_prev >= 0 /\ i = i_prev + 1 /\ i \in InBounds
    /\ sequence[i].selection_code = "FIRST_READY_PAIR"
    /\ \E r \in InBounds :
          /\ sequence[r].status = READY_STATUS
          /\ sequence[r].time_left < sequence[i].time_left

\* C10: the MUST-DO field of the first sequence file (three visits, an
\* interval of 3600 s, 1.5 hours left of its window, no other field, no
\* failure) has TOO_LATE_STATUS at the first call of get_next_field, and the
\* call returns it with the code LEAST_TIME_LATE_MUST_DO
C10_LateMustDoReturned ==
    [][(Selects /\ script = 1 /\ launches = 1 /\ faults = 0 /\ i_prev < 0
        /\ jd = Night0.jd_start /\ Updated[0].status = TOO_LATE_STATUS)
          => /\ i' = 0
             /\ sequence'[0].selection_code = "LEAST_TIME_LATE_MUST_DO"]_vars

\* the step of main that follows the call of get_next_field
AfterSelect == pc = "selected" /\ pc' \in {"top", "readwait"}

\* C11: when get_next_field returned a dark or a dome flat, the iteration
\* observes it (take_exposure is called, and the field is the previous field
\* of the next iteration) whatever bad_weather and telescope_ready are, and
\* no track command goes to the telescope
C11_DarkObservedWithoutSlew ==
    [][(AfterSelect /\ i >= 0 /\ IsDarkOrDome(sequence[i])) =>
          /\ "header" \in sent'
          /\ "track" \notin sent'
          /\ pc' = "top" => i_prev' = i]_vars

\* a dark was exposed in an iteration with bad weather
C11_Witness ==
    /\ pc = "top" /\ bad_weather
    /\ i_prev \in InBounds /\ IsDarkOrDome(sequence[i_prev])
    /\ sequence[i_prev].n_done > 0
    /\ "expose" \in sent /\ "track" \notin sent

\* a step of the observing loop that leaves the program running
LoopStep == pc \in {"top", "body", "selected", "readwait"} /\ pc' # "exited"

\* C12: a field whose doable flag is 0 keeps it 0 through every step of the
\* night's loop, and every call of get_next_field leaves it with
\* NOT_DOABLE_STATUS
C12_NotDoableForever ==
    [][\A s \in InBounds :
          (LoopStep /\ sequence[s].doable = 0) =>
              /\ sequence'[s].doable = 0
              /\ Selects => sequence'[s].status = NOT_DOABLE_STATUS]_vars

\* init_fields found the field too close to the moon; an hour later
\* get_next_field has updated its status once more
C12_Witness ==
    /\ pc = "selected" /\ jd >= Night0.jd_start + HOUR
    /\ \E s \in InBounds :
          /\ moon_interference(sequence[s], nt)
          /\ sequence[s].shutter = SKY_CODE /\ sequence[s].n_done = 0
          /\ sequence[s].doable = 0
          /\ sequence[s].status = NOT_DOABLE_STATUS

\* the readings of the clock from sunset to the step after sunrise
JdGrid == {k * ClockStep : k \in 0..(Night0.jd_sunrise \div ClockStep + 1)}

\* C13: for every field the array holds, every jd and both values of
\* bad_weather, a second call of update_field_status with the same jd and
\* bad_weather leaves status and doable as the first call left them
C13_StatusUpdateIdempotent ==
    \A s \in Slots, t \in JdGrid, w \in BOOLEAN :
        LET once == update_field_status(sequence[s], t, w)
            twice == update_field_status(once, t, w)
        IN  twice.status = once.status /\ twice.doable = once.doable

\* get_next_field has updated the fields: it left one Ready and took the
\* doable flag from one that is complete; a second update at the same jd
\* changes neither
C13_Witness ==
    /\ pc = "selected"
    /\ \E s, u \in InBounds :
          /\ sequence[s].status = READY_STATUS
          /\ update_field_status(sequence[s], jd, bad_weather) = sequence[s]
          /\ sequence[u].n_required > 0
          /\ sequence[u].n_done = sequence[u].n_required
          /\ sequence[u].doable = 0
          /\ update_field_status(sequence[u], jd, bad_weather) = sequence[u]

\* the step of main in an iteration that is paused.  The head of the loop
\* sets bad_weather to 0, and only the telescope check can set it: the check
\* the head skips when it finds pause_flag set.
PausedStep ==
    pc = "body" /\ pause_flag # 0 /\ ~bad_weather /\ pc' \notin {"body", "exited"}

\* the paused iteration commands no exposure and no slew, and sleeps
PausedQuiet ==
    /\ pc' = "top"
    /\ sent' \cap {"header", "expose", "track"} = {}
    /\ jd' = jd + ClockStep
    /\ UNCHANGED <<sequence, i_prev, journal, camera>>

C15_TerminateStows ==
    [][sigterm_handler =>
          /\ pc' = "exited" /\ exit_code' = 1
          /\ journal' = journal
          /\ "stow" \in sent']_vars

\* C15, amended: the program stops the telescope and does not stow it
C15_TerminateStops ==
    [][sigterm_handler =>
          /\ pc' = "exited" /\ exit_code' = 1
          /\ journal' = journal
          /\ sent' = {"stop"}]_vars

\* the scheduler was terminated after an exposure, with the telescope
\* tracking
C15_Witness ==
    /\ pc = "exited" /\ exit_code = 1 /\ sent = {"stop"}
    /\ \E s \in DOMAIN journal : journal[s].n_done > 0

\* a signal handler runs
SignalStep == sigusr1_handler \/ sigusr2_handler \/ sigterm_handler

\* C16: a signal handler sends no command and changes nothing of the
\* program but pause_flag: main stays where it is, the threads live on, the
\* memory and the files are left alone
C16_HandlersOnlySetFlags ==
    [][SignalStep =>
          /\ sent' = {}
          /\ UNCHANGED <<pc, exit_code, journal, jd, nt, sequence, num_fields,
                         new_sequence, num_new_fields_prev, i, i_prev,
                         bad_weather, dome_polled, first_exposure, mode, telescope_ready, focus_done, offset_done,
                         stop_flag, stow_flag, camera, locals>>]_vars

\* the focus branch, with what the focus script and the focus command do
FocusStep == \E focus \in {"best", "default", "fail"} : FocusBranch(focus)

\* the focus was set and the loop goes on
FocusSet(cmd) ==
    /\ pc' = "top" /\ sent' = {cmd} /\ focus_done' = 1
    /\ sequence' = sequence /\ journal' = journal

\* C17 as stated: after a completed focus sequence the loop goes on, with
\* the best focus, or the default focus, or after a bad readout with the
\* last exposure of the sequence to be taken again; the program never exits
C17_FocusFailureContinues ==
    [][FocusStep =>
          \/ FocusSet("focus best")
          \/ FocusSet("focus default")
          \/ pc' = "top" /\ sent' = {} /\ focus_done' = focus_done]_vars

\* C17, amended: a focus script without a usable result has the default
\* focus set and the loop go on; a focus command that fails has the count
\* of the focus field set to 0, the journal saved and the program exit
\* with -1
C17_FocusCommandFailureExits ==
    [][/\ FocusBranch("default") => FocusSet("focus default")
       /\ FocusBranch("best") =>
              \/ FocusSet("focus best")
              \/ /\ pc' = "top" /\ sent' = {} /\ focus_done' = focus_done
                 /\ sequence'[i_prev].n_done = sequence[i_prev].n_done - 1
       /\ FocusBranch("fail") =>
              /\ pc' = "exited" /\ exit_code' = 0 - 1
              /\ journal'[i_prev + 1].n_done = 0]_vars

\* the program has exited on a focus command that failed
C17_Witness ==
    /\ pc = "exited" /\ exit_code = 0 - 1
    /\ "focus default" \in sent
    /\ \E s \in DOMAIN journal :
          journal[s].shutter = FOCUS_CODE /\ journal[s].n_done = 0

\* a completed focus sequence, or offset field, is still to be evaluated
FocusOwed ==
    /\ i_prev >= 0 /\ focus_done = 0
    /\ sequence[i_prev].shutter = FOCUS_CODE
    /\ sequence[i_prev].n_done = sequence[i_prev].n_required

Owed == (IF FocusOwed THEN 1 ELSE 0) + (IF OffsetPending THEN 1 ELSE 0)

\* where main is in the iteration
Stage ==
    CASE pc = "top" -> 4 [] pc = "body" -> 3 [] pc = "selected" -> 2
      [] pc = "readwait" -> 1 [] OTHER -> 0

\* the time to the end of the last iteration the night can have, on the
\* grid of the clock
TimeLeft == (Night0.jd_sunrise + 2 * HOUR - jd) \div ClockStep

\* what is left of the loop: the time, then the evaluations owed, then the
\* rest of the iteration
Rank == IF pc = "exited" THEN 0 ELSE TimeLeft * 12 + Owed * 4 + Stage

\* a step of main in the observation loop
LoopMainStep == pc # "boot" /\ MainStep

NewFieldsGrown == pc = "top" /\ pc' = "body" /\ added > num_new_fields_prev

\* slot s holds the record of the line l of a sequence file
HoldsLine(f, l) ==
    /\ f.ra = l.ra /\ f.dec = l.dec /\ f.shutter = l.shutter
    /\ f.expt = l.expt /\ f.interval = l.interval
    /\ f.n_required = l.n_required

\* C19: when the file of new fields has grown and the program appends to the
\* sequence, it appends the records of the lines beyond the count it had
\* seen, each once: num_fields grows by the number of these lines and the
\* new slots hold them in their order
C19_NewRecordsAppendedOnce ==
    [][(NewFieldsGrown /\ num_fields' # num_fields) =>
          /\ num_fields' = num_fields + (added - num_new_fields_prev)
          /\ \A k \in 1..(added - num_new_fields_prev) :
                 HoldsLine(sequence'[num_fields + k - 1],
                           NewFields[script][num_new_fields_prev + k])]_vars

\* C20: at most one exposure thread is alive, and while the expose command
\* of a thread is outstanding main sends nothing to the camera, neither a
\* header nor the expose command of another thread
C20_OneWorkerOwnsCamera ==
    [][/\ workers' <= 1
       /\ (MainStep /\ workers > 0) =>
              sent' \cap {"header", "expose"} = {}]_vars

\* the last step of main started an exposure thread whose expose command is
\* outstanding: main has not waited for it
WorkerUnawaited ==
    /\ "expose" \in sent
    /\ readout_pending /\ workers > 0 /\ command_done_semaphore = 0

\* C21: main does not exit, at the end of the night or on an error, while
\* an exposure thread it has not waited for is outstanding
C21_ExitWaitsForWorker ==
    [][(MainStep /\ pc' = "exited") => ~WorkerUnawaited]_vars

\* a step of main in which take_exposure created an exposure thread: the
\* header was sent and readout_pending is left True
ThreadCreated == MainStep /\ "header" \in sent' /\ readout_pending'

\* C22: the thread of every asynchronous exposure sends the expose command,
\* once, whenever it looks at the start-semaphore: one more thread has its
\* command outstanding, and is to post the done-semaphore
C22_WorkerSendsOnce ==
    [][ThreadCreated => workers' = workers + 1]_vars

\* the table of timeouts by exposure mode and wait flag
ModeTable(exp_mode, exp_time, wait_flag) ==
    LET readout == READOUT_TIME_SEC * SECOND
        fetch == TRANSFER_TIME_SEC * SECOND
        longer == IF exp_time + readout > fetch THEN exp_time + readout ELSE fetch
    IN  5 * SECOND +
        (IF wait_flag THEN
            CASE exp_mode = "single" -> exp_time + readout + fetch
              [] exp_mode = "first" -> exp_time + readout
              [] exp_mode = "next" -> longer
              [] exp_mode = "last" -> fetch
         ELSE IF exp_mode = "last" THEN readout ELSE exp_time + readout)

\* C23: for the exposure time of every field of the sequence, every
\* exposure mode and both values of the wait flag, expose_timeout returns
\* the value of the table
C23_TimeoutFollowsTable ==
    \A s \in InBounds, exp_mode \in ExpModes, wait_flag \in BOOLEAN :
        expose_timeout(exp_mode, sequence[s].expt, wait_flag)
            = ModeTable(exp_mode, sequence[s].expt, wait_flag)

\* C24: in the loop of exposures of a field, the bad readout that brings
\* the count to MAX_BAD_READOUTS, or beyond, ends the call: the exposure is
\* not repeated
C24_BadReadoutsBounded ==
    pc = "readwait" =>
        \A count \in (bad_read_count + 1)..(MAX_BAD_READOUTS + 1) :
            count >= MAX_BAD_READOUTS => TooManyBadReads(count)

\* C25: the command of an exposure thread is reported as successful only
\* if the first word of the reply is DONE, and a reply that begins with
\* ERROR is reported as a failure
C25_OnlyDoneSucceeds ==
    [][\A reply \in Replies : WorkerFinish(reply) =>
          /\ worker_result' = 0 => (reply # << >> /\ reply[1] = "DONE")
          /\ (reply # << >> /\ reply[1] = "ERROR") => worker_result' # 0]_vars

\* exposure times around the multiples of LONG_EXPTIME: every half of it up
\* to three times, and a second more
ExptGrid == {k * (LONG_EXPTIME \div 2) + d : k \in 1..6, d \in {0, SECOND}}
Ceiling(a, b) == (a + b - 1) \div b

\* field s with exposure time e is long and in the west
LongInWest(s, e) ==
    hour_angle(sequence[s], jd) > 0 /\ e > LONG_EXPTIME

SplitOf(s, e) == SplitCount([sequence[s] EXCEPT !.expt = e], jd)

\* main enters the loop of exposures of a split exposure
SplitStarts == pc = "selected" /\ pc' = "readwait"

\* the call splits the exposure of field i in SplitCount parts and raises
\* n_required by that number less one
SplitApplied ==
    /\ num_exposures' = SplitCount(sequence[i], jd) /\ num_exposures' > 1
    /\ n' = 1
    /\ sequence'[i].n_required = sequence[i].n_required + num_exposures' - 1

C27_RequiredBounded ==
    \A s \in InBounds : sequence[s].n_required <= MAX_OBS_PER_FIELD

\* the status the ordered list of rules gives field f at time t
RuleStatus(f, t, w) ==
    IF f.doable = 0 THEN NOT_DOABLE_STATUS
    ELSE IF f.n_done = f.n_required THEN NOT_DOABLE_STATUS
    ELSE IF t < f.jd_rise \/ t > f.jd_set THEN NOT_DOABLE_STATUS
    ELSE IF f.jd_next - t > MIN_EXECUTION_TIME THEN NOT_DOABLE_STATUS
    ELSE IF f.shutter \in {DARK_CODE, DOME_FLAT_CODE} THEN DO_NOW_STATUS
    ELSE IF f.shutter \in {FOCUS_CODE, OFFSET_CODE, EVENING_FLAT_CODE,
                           MORNING_FLAT_CODE}
         THEN IF w THEN NOT_DOABLE_STATUS ELSE DO_NOW_STATUS
    ELSE IF (f.jd_set - t) - (f.n_required - f.n_done) * f.interval < 0
         THEN TOO_LATE_STATUS
    ELSE READY_STATUS

\* the doable flag the rules leave: cleared by the rule of the complete field
\* and by the rule of the field that has set
RuleDoable(f, t) ==
    IF f.doable = 0 THEN 0
    ELSE IF f.n_done = f.n_required THEN 0
    ELSE IF t > f.jd_set THEN 0
    ELSE f.doable

\* C28: update_field_status gives every field the status of the first rule
\* of the list that matches, whatever the time and the weather, and clears
\* doable of a field that is complete or has set
C28_StatusByFirstRule ==
    \A s \in InBounds, t \in JdGrid \cup {jd}, w \in BOOLEAN :
        LET f == update_field_status(sequence[s], t, w)
        IN  /\ f.status = RuleStatus(sequence[s], t, w)
            /\ f.doable = RuleDoable(sequence[s], t)

\* get_next_field has updated the fields: one is complete and no longer
\* doable, one has set, one is Ready or is to be done now
C28_Witness ==
    /\ pc = "selected"
    /\ \E s, u \in InBounds :
          /\ sequence[s].n_done = sequence[s].n_required
          /\ sequence[s].doable = 0
          /\ sequence[s] = update_field_status(sequence[s], jd, bad_weather)
          /\ sequence[u].status \in {READY_STATUS, DO_NOW_STATUS}
          /\ sequence[u].status = RuleStatus(sequence[u], jd, bad_weather)

\* get_next_field returns from one of the two tiers of Ready fields
ReadyTier ==
    /\ Selects /\ i' >= 0
    /\ sequence'[i'].selection_code \in
           {"LEAST_TIME_READY", "LEAST_TIME_READY_MUST_DO"}

\* the Ready fields of the class of field r: MUST-DO or not
ReadyClass(s, r) ==
    {u \in InBounds :
        /\ s[u].status = READY_STATUS
        /\ (s[u].survey_code = MUSTDO_SURVEY_CODE)
               = (s[r].survey_code = MUSTDO_SURVEY_CODE)}

\* those of them the loop of the tier compares: the fields with the fewest
\* visits left and, in the MUST-DO tier, the fields of six visits
FewestLeft(s, r) ==
    {u \in ReadyClass(s, r) :
        \/ \A v \in ReadyClass(s, r) : n_left_of(s[u]) <= n_left_of(s[v])
        \/ s[r].survey_code = MUSTDO_SURVEY_CODE /\ s[u].n_required = 6}

\* field r comes before field u by time_left, then visits left, then index
TimeLeftFirst(s, r, u) ==
    \/ s[r].time_left < s[u].time_left
    \/ /\ s[r].time_left = s[u].time_left
       /\ \/ n_left_of(s[r]) < n_left_of(s[u])
          \/ n_left_of(s[r]) = n_left_of(s[u]) /\ r <= u

\* C29 as stated: the field returned from a tier of Ready fields has the
\* least time_left of all the Ready fields of its class; visits left and
\* index only break ties
C29_LeastTimeLeftOfAll ==
    [][ReadyTier =>
          \A u \in ReadyClass(Updated, i') : TimeLeftFirst(Updated, i', u)]_vars

\* C29, amended: the field returned from a tier of Ready fields is one of
\* those with the fewest visits left of its class (or, if MUST-DO, of six
\* visits), and has the least time_left of these; the index breaks ties
C29_FewestVisitsThenTimeLeft ==
    [][ReadyTier =>
          /\ i' \in FewestLeft(Updated, i')
          /\ \A u \in FewestLeft(Updated, i') :
                \/ Updated[i'].time_left < Updated[u].time_left
                \/ Updated[i'].time_left = Updated[u].time_left /\ i' <= u]_vars

\* a Ready field was returned while another Ready field of its class has
\* less time left and more visits to go
C29_Witness ==
    /\ pc = "selected" /\ i >= 0
    /\ sequence[i].selection_code \in
           {"LEAST_TIME_READY", "LEAST_TIME_READY_MUST_DO"}
    /\ \E u \in ReadyClass(sequence, i) :
          /\ sequence[u].time_left < sequence[i].time_left
          /\ n_left_of(sequence[u]) > n_left_of(sequence[i])

\* get_next_field returns a field of the sequence from the tier of the
\* MUST-DO fields that are TooLate
LateMustDoTier ==
    /\ Selects /\ i' \in InBounds
    /\ sequence'[i'].selection_code = "LEAST_TIME_LATE_MUST_DO"

\* C30: the field returned from the tier of the TooLate MUST-DO fields had
\* its interval shortened and is Ready then; a field whose interval could
\* not be shortened is not returned
C30_LateMustDoReturnedReady ==
    [][LateMustDoTier =>
          /\ sequence'[i'].status = READY_STATUS
          /\ sequence'[i'].doable # 0
          /\ sequence'[i'].time_left >= 0]_vars

\* the fields that have visits left
Unfinished == {s \in InBounds : sequence[s].n_done < sequence[s].n_required}

\* the interval that shorten_interval computes for field s
NewInterval(s) ==
    sequence[s].time_up \div (sequence[s].n_required - sequence[s].n_done)

\* shorten_interval shortens the interval of field s to NewInterval(s)
Shortened(s) ==
    LET f == shorten_interval(sequence[s])
    IN  /\ f.interval = NewInterval(s)
        /\ f.time_required = sequence[s].time_up /\ f.time_left = 0
        /\ f.doable = sequence[s].doable

\* shorten_interval refuses: the interval stays, doable is cleared
Refused(s) ==
    LET f == shorten_interval(sequence[s])
    IN  f = [sequence[s] EXCEPT !.doable = 0]

\* C31 as stated: shorten_interval sets the interval of a field with visits
\* left to time_up/(n_required - n_done) if that is at least MIN_INTERVAL,
\* and else leaves the interval and clears doable
C31_ShortensIfAtLeastMin ==
    \A s \in Unfinished :
        IF NewInterval(s) >= MIN_INTERVAL THEN Shortened(s) ELSE Refused(s)

\* a command to the telescope or the camera: the wait for the readout of the
\* exposure before sends none
IsCommand(c) == c # "wait"
Range(q) == {q[k] : k \in DOMAIN q}

\* the order of the commands as the specification has it
ClaimedOrder(f, clear_due) ==
    (IF IsDarkOrDome(f) THEN << >> ELSE << "track" >>)
    \o (IF f.shutter = FOCUS_CODE THEN << "focus" >> ELSE << >>)
    \o << "header" >>
    \o (IF clear_due THEN << "clear" >> ELSE << >>)
    \o << "expose" >>

\* the step of main in which observe_next_field has the exposure commanded
ExposeStep == pc = "selected" /\ "expose" \in sent'

\* the commands of that step are those of ObserveCommands, and the wait for
\* the readout of the exposure is still to come
ExposeThenWait ==
    /\ sent' \cap {"track", "header", "expose"}
          = Range(ObserveCommands(sequence[i], TRUE))
               \cap {"track", "header", "expose"}
    /\ readout_pending'

InLoop == pc \in {"top", "body", "selected", "readwait"}

\* the start of the night after a call of init_fields at time t
StartAfter(from, t) == IF t > from THEN t ELSE from

\* C33 as stated: the night that init_night built is never modified
C33_NightNeverChanges == InLoop => nt = Night0

\* C33, amended: init_fields moves jd_start to the time of the call when it
\* is called after jd_start, at startup and when fields are added; no other
\* member of the night and no other operation changes the night
C33_OnlyStartOfNightMoves ==
    [][/\ InLoop' => nt' = [Night0 EXCEPT !.jd_start = nt'.jd_start]
       /\ (pc = "boot" /\ InLoop') =>
              nt'.jd_start = StartAfter(Night0.jd_start, jd')
       /\ (InLoop /\ InLoop' /\ nt' # nt) =>
              NewFieldsGrown /\ nt'.jd_start = StartAfter(nt.jd_start, jd)]_vars

\* the start of the night was moved when fields were added in the night
C33_Witness ==
    /\ InLoop /\ num_new_fields_prev > 0
    /\ nt.jd_start > Night0.jd_start /\ nt.jd_end = Night0.jd_end

\* C34: get_next_field returns -1 or the index of a field the sequence
\* holds, and writes no slot of the array beyond the fields
C34_SelectsWithinFields ==
    [][Selects =>
          /\ i' = 0 - 1 \/ i' \in InBounds
          /\ \A s \in Slots \ InBounds : sequence'[s] = sequence[s]]_vars

\* the field is doable and Ready or to be done now: it has visits left, is
\* up, and its next visit is due
Observable(f, t) ==
    /\ f.doable = 1 /\ f.status \in {READY_STATUS, DO_NOW_STATUS}
    /\ f.n_done < f.n_required
    /\ f.jd_rise <= t /\ t <= f.jd_set
    /\ f.jd_next - t <= MIN_EXECUTION_TIME

\* the selection codes of the returns that do not test the status
UntestedReturns ==
    {"LEAST_TIME_LATE_MUST_DO", "FIRST_NOT_READY_LATE_PAIR",
     "FIRST_NOT_READY_NOT_LATE_PAIR"}

Decremented ==
    {s \in InBounds : InLoop /\ InLoop'
                      /\ sequence'[s].n_done < sequence[s].n_done}

\* C36: a visit is taken back only after a bad readout, and only of the
\* field of the exposure that was commanded last, whose readout was awaited
C36_UndoneIsLastExposed ==
    [][\A s \in Decremented : readout_pending /\ s = exposed]_vars

\* ------------------------------------------------------------------------
\* The process killed while it writes the journal
\* ------------------------------------------------------------------------
\* scheduler.bin when the process dies inside save_obs_record after it wrote
\* the first line and k records over the file it opened with "r+": the
\* records behind them are those of the file as it was
Torn(old, new, k) == [r \in 1..Len(new) |-> IF r <= k THEN new[r] ELSE old[r]]

\* the array main hands to save_obs_record after observe_next_field
ObservedSequence(fail, started) ==
    observe_next_field(sequence, i, i_prev, jd,
                       [pending |-> readout_pending,
                        start |-> command_start_semaphore,
                        done |-> command_done_semaphore,
                        readout |-> readout_result],
                       fail, started)

\* the iteration of Observe, the process killed in its save_obs_record.  The
\* file has a record for every field already (a shorter one makes the fread
\* of load_obs_record fail)
KilledInSave(fail, started, k) ==
    /\ pc = "selected"
    /\ MayObserve
    /\ workers < MaxWorkers
    /\ IsDarkOrDome(sequence[i]) => fail \notin {"status", "point"}
    /\ fail \notin {"none", "expwait"} => started
    /\ LET waits == fail \notin {"status", "point"}
           cost == Cost(fail = "none") + Cost(started)
                   + Cost(~(waits /\ CameraLate))
       IN  faults + cost <= MaxFaults /\ faults' = faults + cost
    /\ Len(journal) = num_fields
    /\ k \in 0..num_fields
    /\ LET o == ObservedSequence(fail, started)
       IN  /\ o.ret # 0 \/ o.num_exposures = 1
           /\ journal' = Torn(journal, save_obs_record(o.seq, num_fields), k)
           /\ sent' = o.cmds
    /\ pc' = "exited"
    /\ jd' = jd + ClockStep
    /\ ProcessGone
    /\ UNCHANGED <<exit_code, launches, script, added>>

NextKilled ==
    \/ Next
    \/ \E fail \in Fails, started \in BOOLEAN, k \in 0..MaxSlots :
          KilledInSave(fail, started, k)

SpecKilled == Init /\ [][NextKilled]_vars

\* the array load_obs_record yields from a file
Loaded(file) == load_obs_record([s \in Slots |-> ZeroField], file).seq

\* C37: when the process is killed in save_obs_record, what load_obs_record
\* reads afterwards is the array of the save before or the array of this one
C37_KilledSaveLeavesSnapshot ==
    [][\A fail \in Fails, started \in BOOLEAN, k \in 0..MaxSlots :
          KilledInSave(fail, started, k) =>
             \/ Loaded(journal') = Loaded(journal)
             \/ Loaded(journal') =
                  Loaded(save_obs_record(ObservedSequence(fail, started).seq,
                                         num_fields))]_vars

\* C38: the done-semaphore never holds more than one post, so that the post
\* wait_camera_readout takes is that of the exposure started last
C38_AtMostOneToken == command_done_semaphore <= 1

\* a step of observe_next_field that sends an expose command for a field
\* that needs the sky
SkyExposure ==
    /\ pc \in {"selected", "readwait"}
    /\ "expose" \in sent'
    /\ ~IsDarkOrDome(sequence[i])

\* C39: an exposure of a field that is neither a dark nor a dome flat is
\* commanded only in an iteration of the loop that polled the telescope
\* with success and found the dome open
C39_SkyExposureAfterDomePoll == [][SkyExposure => dome_polled]_vars

\* a step of observe_next_field in which the thread of take_exposure sends
\* the expose command, with the exp_mode main passed to the call
ExposeSent == pc \in {"selected", "readwait"} /\ "expose" \in sent'

\* C40: the first exposure take_exposure starts is commanded with mode
\* first and every one after it with another mode
C40_FirstThenNext ==
    [][ExposeSent => (mode' = "first" <=> exposed = 0 - 1)]_vars
====
